---- MODULE Spec2Model ----
(***************************************************************************)
(* A model of the Rook card game: the rules engine of packages/rook-engine *)
(* (cards, deck, bidding, trick, scoring) and the per-room state machine   *)
(* GameStore of apps/server/src/game.ts.                                   *)
(*                                                                         *)
(* Seats and engine players are the indices 0..3 (T1P1, T2P1, T1P2, T2P2), *)
(* teams are 0 (T1) and 1 (T2).  Arrays indexed by player or team are      *)
(* functions over 0..3 and 0..1; card lists are sequences.                 *)
(***************************************************************************)
EXTENDS Integers, Sequences, FiniteSets, TLC

VARIABLES
    state,      \* GameStore: the GameState stored for the room, Null before startGame
    result,     \* GameStore: the GameResult returned by the last call
    dealt,      \* number of hands dealt so far in the game (bounds the game length)
    frees,      \* number of non-default inputs submitted so far (bounds the search)
    bidding,    \* engine: the BiddingState threaded through applyBiddingAction
    thrown,     \* engine: the outcome of the last applyBiddingAction call
    probe,      \* engine: the last application of a pure function, with its inputs
    room,       \* RoomStore: the Room stored for the room code, Null before createRoom
    handState   \* engine: the HandState threaded through applyHandAction

vars == <<state, result, dealt, frees, bidding, thrown, probe, room, handState>>

\* null / undefined of a value that is a record or a list
Null == [null |-> TRUE]
\* null / undefined of a value that is a string (trump, lead color, player id, team key)
None == "none"
\* null of a value that is a player or team index
NoIndex == 0 - 1

Players == 0 .. 3
Teams == 0 .. 1

----------------------------------------------------------------------------
(* packages/rook-engine/src/cards.ts *)

COLORS == <<"red", "yellow", "green", "black">>

Colors == {COLORS[i] : i \in 1 .. 4}

Rook == [kind |-> "rook"]

SuitCard(color, rank) == [kind |-> "suit", color |-> color, rank |-> rank]

\* 'ROOK' or `${COLOR}_${rank}`: the string is modelled by the pair it is built from
cardId(card) ==
    IF card.kind = "rook" THEN <<"ROOK">> ELSE <<card.color, card.rank>>

isPointCard(card) ==
    IF card.kind = "rook" THEN TRUE
    ELSE card.rank = 1 \/ card.rank = 5 \/ card.rank = 10 \/ card.rank = 14

\* cardPoints that values the Rook by a rank it does not have
cardPointsWithoutRook(card) ==
    IF card.kind = "rook" THEN 0
    ELSE CASE card.rank = 1 -> 15
           [] card.rank = 5 -> 5
           [] card.rank = 10 -> 10
           [] card.rank = 14 -> 10
           [] OTHER -> 0

cardPoints(card) ==
    IF card.kind = "rook" THEN 20
    ELSE CASE card.rank = 1 -> 15
           [] card.rank = 5 -> 5
           [] card.rank = 10 -> 10
           [] card.rank = 14 -> 10
           [] OTHER -> 0

----------------------------------------------------------------------------
(* list helpers standing for the array methods the code uses *)

RECURSIVE SeqSum(_)
SeqSum(s) == IF s = <<>> THEN 0 ELSE Head(s) + SeqSum(Tail(s))

Mapped(s, Op(_)) == [i \in 1 .. Len(s) |-> Op(s[i])]

Range(s) == {s[i] : i \in 1 .. Len(s)}

\* Array.prototype.indexOf, 0-based, -1 when absent
IndexOf(f, x) ==
    IF \E i \in DOMAIN f : f[i] = x
    THEN CHOOSE i \in DOMAIN f : f[i] = x /\ \A j \in DOMAIN f : f[j] = x => i <= j
    ELSE NoIndex

----------------------------------------------------------------------------
(* packages/rook-engine/src/bidding.ts *)

DEFAULT_MIN_BID == 100
DEFAULT_MAX_BID == 200
DEFAULT_BID_STEP == 5

teamOf(player) == player % 2

partnerOf(player) == (player + 2) % 4

createBiddingState(startingPlayer, minBid, step) ==
    [ currentPlayer   |-> startingPlayer,
      minBid          |-> minBid,
      step            |-> step,
      highBid         |-> Null,
      passed          |-> [p \in Players |-> FALSE],
      passPartnerUsed |-> [t \in Teams |-> FALSE],
      history         |-> <<>> ]

countPassed(passed) == Cardinality({p \in Players : passed[p]})

isBiddingComplete(b) == countPassed(b.passed) >= 3

\* getWinningBid without the completeness test
getWinningBidOfHighBid(b) == b.highBid

getWinningBid(b) == IF ~isBiddingComplete(b) THEN Null ELSE b.highBid

\* nextActivePlayer that does not skip the passed players
nextActivePlayerInSeatOrder(passed, from) == (from + 1) % 4

\* the first non-passed player after `from` in seat order, `from` itself last
nextActivePlayer(passed, from) ==
    IF \E i \in 1 .. 4 : ~passed[(from + i) % 4]
    THEN LET i == CHOOSE k \in 1 .. 4 :
                     /\ ~passed[(from + k) % 4]
                     /\ \A j \in 1 .. (k - 1) : passed[(from + j) % 4]
         IN (from + i) % 4
    ELSE from

\* Each apply* operator returns [ok, state, error]: ok = FALSE stands for the
\* thrown Error, whose message is `error`, and leaves the caller's state alone.
Thrown(msg) == [ok |-> FALSE, error |-> msg]
Returned(b) == [ok |-> TRUE, state |-> b]

\* applyBid that leaves the turn with the bidder
applyBidKeepsTurn(b, action) ==
    IF action.amount < b.minBid THEN Thrown("Bid must be at least minBid.")
    ELSE IF action.amount > DEFAULT_MAX_BID THEN Thrown("Bid cannot exceed 200.")
    ELSE IF action.amount % b.step # 0 THEN Thrown("Bid must be in increments of step.")
    ELSE IF b.highBid # Null /\ action.amount <= b.highBid.amount
         THEN Thrown("Bid must exceed the current high bid.")
    ELSE Returned([b EXCEPT
            !.highBid = [player |-> action.player, amount |-> action.amount],
            !.history = Append(b.history, action)])

\* applyBid without the comparison to the current high bid
applyBidAtAnyAmount(b, action) ==
    IF action.amount < b.minBid THEN Thrown("Bid must be at least minBid.")
    ELSE IF action.amount > DEFAULT_MAX_BID THEN Thrown("Bid cannot exceed 200.")
    ELSE IF action.amount % b.step # 0 THEN Thrown("Bid must be in increments of step.")
    ELSE Returned([b EXCEPT
            !.highBid = [player |-> action.player, amount |-> action.amount],
            !.currentPlayer = nextActivePlayer(b.passed, action.player),
            !.history = Append(b.history, action)])

applyBid(b, action) ==
    IF action.amount < b.minBid THEN Thrown("Bid must be at least minBid.")
    ELSE IF action.amount > DEFAULT_MAX_BID THEN Thrown("Bid cannot exceed 200.")
    ELSE IF action.amount % b.step # 0 THEN Thrown("Bid must be in increments of step.")
    ELSE IF b.highBid # Null /\ action.amount <= b.highBid.amount
         THEN Thrown("Bid must exceed the current high bid.")
    ELSE Returned([b EXCEPT
            !.highBid = [player |-> action.player, amount |-> action.amount],
            !.currentPlayer = nextActivePlayer(b.passed, action.player),
            !.history = Append(b.history, action)])

applyPass(b, action) ==
    LET passed == [b.passed EXCEPT ![action.player] = TRUE]
    IN Returned([b EXCEPT
            !.passed = passed,
            !.currentPlayer = nextActivePlayer(passed, action.player),
            !.history = Append(b.history, action)])

\* applyPassPartner without the test of the team's flag
applyPassPartnerAgain(b, action) ==
    IF b.highBid = Null THEN Thrown("Cannot pass partner before any bid is made.")
    ELSE IF b.highBid.player # partnerOf(action.player)
         THEN Thrown("PassPartner is only allowed when your partner is the high bidder.")
    ELSE Returned([b EXCEPT
            !.passPartnerUsed = [b.passPartnerUsed EXCEPT ![teamOf(action.player)] = TRUE],
            !.currentPlayer = nextActivePlayer(b.passed, action.player),
            !.history = Append(b.history, action)])

applyPassPartner(b, action) ==
    IF b.highBid = Null THEN Thrown("Cannot pass partner before any bid is made.")
    ELSE IF b.highBid.player # partnerOf(action.player)
         THEN Thrown("PassPartner is only allowed when your partner is the high bidder.")
    ELSE IF b.passPartnerUsed[teamOf(action.player)]
         THEN Thrown("PassPartner has already been used by this team.")
    ELSE Returned([b EXCEPT
            !.passPartnerUsed = [b.passPartnerUsed EXCEPT ![teamOf(action.player)] = TRUE],
            !.currentPlayer = nextActivePlayer(b.passed, action.player),
            !.history = Append(b.history, action)])

\* applyBiddingAction without the test for a completed bidding
applyBiddingActionAfterComplete(b, action) ==
    IF action.player # b.currentPlayer
    THEN Thrown("Action must be taken by the current player.")
    ELSE CASE action.type = "bid" -> applyBid(b, action)
           [] action.type = "pass" -> applyPass(b, action)
           [] action.type = "passPartner" -> applyPassPartner(b, action)

applyBiddingAction(b, action) ==
    IF isBiddingComplete(b) THEN Thrown("Bidding is complete. No further actions allowed.")
    ELSE IF action.player # b.currentPlayer
         THEN Thrown("Action must be taken by the current player.")
    ELSE IF b.passed[action.player] THEN Thrown("Passed players cannot act.")
    ELSE CASE action.type = "bid" -> applyBid(b, action)
           [] action.type = "pass" -> applyPass(b, action)
           [] action.type = "passPartner" -> applyPassPartner(b, action)

BidAction(player, amount) == [type |-> "bid", player |-> player, amount |-> amount]
PassAction(player) == [type |-> "pass", player |-> player]
PassPartnerAction(player) == [type |-> "passPartner", player |-> player]

----------------------------------------------------------------------------
(* packages/rook-engine/src/trick.ts *)

\* the ids of the cards of `hand` that may be played, in hand order
\* getLegalPlays without the follow-suit filter
getLegalPlaysAnyCard(hand, trickLeadColor, trumpColor, rookRankMode) ==
    Mapped(hand, cardId)

getLegalPlays(hand, trickLeadColor, trumpColor, rookRankMode) ==
    IF trickLeadColor = None THEN Mapped(hand, cardId)
    ELSE LET leadSuitCards ==
                 SelectSeq(hand, LAMBDA card :
                     card.kind = "suit" /\ card.color = trickLeadColor)
         IN IF Len(leadSuitCards) > 0 THEN Mapped(leadSuitCards, cardId)
            ELSE Mapped(hand, cardId)

rankValue(card) ==
    IF card.kind = "rook" THEN 0
    ELSE IF card.rank = 1 THEN 15
    ELSE card.rank

scoreCard(card, leadColor, trumpColor, rookRankMode) ==
    IF card.kind = "rook"
    THEN [major |-> 2, tier |-> IF rookRankMode = "rookHigh" THEN 2 ELSE 0, rank |-> 0]
    ELSE IF card.color = trumpColor
    THEN [major |-> 2, tier |-> 1, rank |-> rankValue(card)]
    ELSE IF leadColor # None /\ card.color = leadColor
    THEN [major |-> 1, tier |-> 0, rank |-> rankValue(card)]
    ELSE [major |-> 0, tier |-> 0, rank |-> 0]

\* the test of the loop with >= on the last level: a later equal card wins
replacesBestOrTies(score, bestScore) ==
    \/ score.major > bestScore.major
    \/ (score.major = bestScore.major /\ score.tier > bestScore.tier)
    \/ (score.major = bestScore.major /\ score.tier = bestScore.tier
            /\ score.rank >= bestScore.rank)

\* the test of the loop of determineTrickWinner: `score` replaces the incumbent
replacesBest(score, bestScore) ==
    \/ score.major > bestScore.major
    \/ (score.major = bestScore.major /\ score.tier > bestScore.tier)
    \/ (score.major = bestScore.major /\ score.tier = bestScore.tier
            /\ score.rank > bestScore.rank)

\* the loop of determineTrickWinner from index i (1-based) on
RECURSIVE trickWinnerLoop(_, _, _)
trickWinnerLoop(scores, i, bestIndex) ==
    IF i > Len(scores) THEN bestIndex
    ELSE IF replacesBest(scores[i], scores[bestIndex])
         THEN trickWinnerLoop(scores, i + 1, i)
         ELSE trickWinnerLoop(scores, i + 1, bestIndex)

\* the 0-based index of the winning card, -1 for an empty trick
determineTrickWinner(trickCardsInOrder, leadColor, trumpColor, rookRankMode) ==
    IF Len(trickCardsInOrder) = 0 THEN NoIndex
    ELSE LET scores == [i \in 1 .. Len(trickCardsInOrder) |->
                 scoreCard(trickCardsInOrder[i], leadColor, trumpColor, rookRankMode)]
         IN trickWinnerLoop(scores, 2, 1) - 1

----------------------------------------------------------------------------
(* packages/rook-engine/src/scoring.ts *)

LAST_TRICK_BONUS == 20

sumPoints(cards) == SeqSum(Mapped(cards, cardPoints))

\* the contract step that takes the bid off the points of a set bidding team
contractScoresNetOfBid(points, biddingTeam, bidAmount) ==
    [t \in Teams |->
        IF t = biddingTeam /\ points[biddingTeam] < bidAmount
        THEN points[t] - bidAmount
        ELSE points[t]]

\* the contract step of scoreHand: the scores given the points
contractScores(points, biddingTeam, bidAmount) ==
    [t \in Teams |->
        IF t = biddingTeam /\ points[biddingTeam] < bidAmount
        THEN 0 - bidAmount
        ELSE points[t]]

\* scoreHand that leaves the kitty's points out
scoreHandWithoutKitty(capturedByTeam, lastTrickTeam, kittyCards, biddingTeam, bidAmount) ==
    LET points == [t \in Teams |->
                     IF t = lastTrickTeam
                     THEN sumPoints(capturedByTeam[t]) + LAST_TRICK_BONUS
                     ELSE sumPoints(capturedByTeam[t])]
    IN [points |-> points, scores |-> contractScores(points, biddingTeam, bidAmount)]

scoreHand(capturedByTeam, lastTrickTeam, kittyCards, biddingTeam, bidAmount) ==
    LET points == [t \in Teams |->
                     IF t = lastTrickTeam
                     THEN sumPoints(capturedByTeam[t]) + LAST_TRICK_BONUS
                              + sumPoints(kittyCards)
                     ELSE sumPoints(capturedByTeam[t])]
    IN [points |-> points, scores |-> contractScores(points, biddingTeam, bidAmount)]

----------------------------------------------------------------------------
(* packages/rook-engine/src/deck.ts *)

MAX_RANK == 14

\* ranks 1..14, without 2, 3 and 4 in fast mode, in increasing order
deckRanks(deckMode) ==
    SelectSeq([r \in 1 .. MAX_RANK |-> r], LAMBDA r :
        ~(deckMode = "fast" /\ (r = 2 \/ r = 3 \/ r = 4)))

\* the suited cards color by color in COLORS order, then the Rook
buildDeck(deckMode) ==
    LET ranks == deckRanks(deckMode)
        n == Len(ranks)
        suited == [k \in 1 .. (4 * n) |->
                     SuitCard(COLORS[((k - 1) \div n) + 1], ranks[((k - 1) % n) + 1])]
    IN Append(suited, Rook)

\* mulberry32: the generator is a counter advanced by an odd constant at each
\* call, whose value is scrambled by multiplications and shifts.  The model
\* keeps that shape on 15-bit words (products stay below 2^31).  The k-th
\* call (k = 1 for the first) finds the counter at seed + k * increment; the
\* draw is a number in 0 .. RNG_RANGE - 1 standing for the fraction
\* draw / RNG_RANGE in [0, 1).
RNG_RANGE == 32768
RNG_INCREMENT == 31221

mulberry32(seed, k) ==
    LET t == (seed + (k * RNG_INCREMENT)) % RNG_RANGE
        x1 == ((t + (t \div 128)) * ((2 * (t % 64)) + 1)) % RNG_RANGE
        x2 == (x1 + ((x1 + (x1 \div 32)) * 61)) % RNG_RANGE
    IN (x2 + (x2 \div 512)) % RNG_RANGE

\* a[i] and a[j] exchanged, 0-based indices
swapped(a, i, j) == [a EXCEPT ![i + 1] = a[j + 1], ![j + 1] = a[i + 1]]

\* iteration k of the Fisher-Yates loop of shuffle (k = 1 for the first):
\* index i = length - k is swapped with j = floor(rng() * (i + 1))
shuffleStep(a, seed, k) ==
    LET i == Len(a) - k
        j == (mulberry32(seed, k) * (i + 1)) \div RNG_RANGE
    IN swapped(a, i, j)

\* iterations first .. last of the loop of shuffle, applied in order (the
\* loop does not run on an array of fewer than two elements)
RECURSIVE shuffleLoop(_, _, _, _)
shuffleLoop(a, seed, first, last) ==
    IF Len(a) < 2 \/ first > last THEN a
    ELSE IF first = last THEN shuffleStep(a, seed, first)
    ELSE LET mid == (first + last) \div 2
         IN shuffleLoop(shuffleLoop(a, seed, first, mid), seed, mid + 1, last)

shuffle(arr, seed) == shuffleLoop(arr, seed % RNG_RANGE, 1, Len(arr) - 1)

\* deal that gives each hand a block of consecutive cards
dealInBlocks(deck, kittySize) ==
    IF kittySize <= 0 THEN Thrown("kittySize must be > 0")
    ELSE LET remaining == Len(deck) - kittySize
         IN IF remaining <= 0 THEN Thrown("deck too small for kitty")
            ELSE IF remaining % 4 # 0
            THEN Thrown("deck minus kitty must be divisible by 4")
            ELSE LET perHand == remaining \div 4
                 IN [ ok    |-> TRUE,
                      hands |-> [p \in Players |->
                                   [r \in 1 .. perHand |-> deck[(perHand * p) + r]]],
                      kitty |-> SubSeq(deck, remaining + 1, remaining + kittySize) ]

\* deal: [ok, hands, kitty], or the thrown Error
deal(deck, kittySize) ==
    IF kittySize <= 0 THEN Thrown("kittySize must be > 0")
    ELSE LET remaining == Len(deck) - kittySize
         IN IF remaining <= 0 THEN Thrown("deck too small for kitty")
            ELSE IF remaining % 4 # 0
            THEN Thrown("deck minus kitty must be divisible by 4")
            ELSE LET perHand == remaining \div 4
                 IN [ ok    |-> TRUE,
                      hands |-> [p \in Players |->
                                   [r \in 1 .. perHand |-> deck[(4 * (r - 1)) + p + 1]]],
                      kitty |-> SubSeq(deck, remaining + 1, remaining + kittySize) ]

----------------------------------------------------------------------------
(* apps/server/src/rooms.ts and the helpers of apps/server/src/game.ts *)

SEATS == [i \in Players |-> <<"T1P1", "T2P1", "T1P2", "T2P2">>[i + 1]]

KITTY_SIZE == 5

\* teamKey that names the first team for both teams
teamKeyFirstTeam(team) == "T1"

teamKey(team) == IF team = 0 THEN "T1" ELSE "T2"

getSeatOrder == SEATS

\* GameResult<T>
Ok(value) == [ok |-> TRUE, value |-> value]
Err(error) == [ok |-> FALSE, error |-> error]

\* the player ids of the seats in SEATS order, or 'seats not full'
buildPlayerOrder(seats) ==
    IF \E i \in Players : seats[SEATS[i]] = None THEN Err("seats not full")
    ELSE Ok([i \in Players |-> seats[SEATS[i]]])

findPlayerIndex(playerOrder, playerId) ==
    IF IndexOf(playerOrder, playerId) = NoIndex THEN Err("player not seated")
    ELSE Ok(IndexOf(playerOrder, playerId))

\* the first seat, in SEATS order, that is empty or whose player is not ready
\* decides the error
isRoomReadyForGame(roomState) ==
    LET bad == {i \in Players :
                   \/ roomState.seats[SEATS[i]] = None
                   \/ ~roomState.ready[roomState.seats[SEATS[i]]]}
    IN IF bad = {} THEN Ok(TRUE)
       ELSE LET i == CHOOSE k \in bad : \A j \in bad : k <= j
            IN IF roomState.seats[SEATS[i]] = None THEN Err("seats not full")
               ELSE Err("players not ready")

\* createSeed hashes `${roomCode}:${startedAt}`; startedAt is Date.now(), so
\* the seed is an input of the deal
dealHands(seed, deckMode) ==
    LET dealtCards == deal(shuffle(buildDeck(deckMode), seed), KITTY_SIZE)
    IN [hands |-> dealtCards.hands, kitty |-> dealtCards.kitty, seed |-> seed]

\* the HandState of createPreDealState and of nextHand
emptyHand(deckMode, dealerSeat) ==
    [ phase                    |-> "preDeal",
      deckMode                 |-> deckMode,
      dealerSeat               |-> dealerSeat,
      seed                     |-> 0,
      kittySize                |-> KITTY_SIZE,
      kitty                    |-> <<>>,
      kittyPickedUpCards       |-> <<>>,
      pointsNoticeSent         |-> FALSE,
      hands                    |-> [p \in Players |-> <<>>],
      trickCards               |-> <<>>,
      trickLeadColor           |-> None,
      bidder                   |-> NoIndex,
      winningBid               |-> Null,
      trump                    |-> None,
      kittyPickedUp            |-> FALSE,
      capturedByTeam           |-> [T1 |-> <<>>, T2 |-> <<>>],
      lastTrickWinnerTeam      |-> None,
      handPoints               |-> Null,
      handScores               |-> Null,
      biddersSet               |-> Null,
      undoAvailableForPlayerId |-> None,
      undoState                |-> Null ]

createPreDealState(seats, settings) ==
    LET orderResult == buildPlayerOrder(seats)
    IN IF ~orderResult.ok THEN orderResult
       ELSE LET playerOrder == orderResult.value
                seatOrder == getSeatOrder
                dealerIndex == settings.startingPlayer
                dealerSeat == seatOrder[dealerIndex]
            IN Ok([ phase             |-> "preDeal",
                    seatOrder         |-> seatOrder,
                    playerOrder       |-> playerOrder,
                    dealerSeat        |-> dealerSeat,
                    rookRankMode      |-> settings.rookRankMode,
                    bidding           |-> createBiddingState((dealerIndex + 1) % 4,
                                             settings.minBid, settings.step),
                    hand              |-> emptyHand(settings.deckMode, dealerSeat),
                    whoseTurnSeat     |-> dealerSeat,
                    whoseTurnPlayerId |-> playerOrder[dealerIndex],
                    scores            |-> [t \in Teams |-> 0],
                    gameScore         |-> [t \in Teams |-> 0],
                    dealerIndex       |-> dealerIndex,
                    targetScore       |-> settings.targetScore,
                    winnerTeam        |-> NoIndex ])

dealCurrentHand(s, rookRankMode, seed) ==
    LET d == dealHands(seed, s.hand.deckMode)
        b == createBiddingState((s.dealerIndex + 1) % 4, s.bidding.minBid, s.bidding.step)
    IN [s EXCEPT
          !.phase = "bidding",
          !.rookRankMode = rookRankMode,
          !.bidding = b,
          !.whoseTurnSeat = s.seatOrder[b.currentPlayer],
          !.whoseTurnPlayerId = s.playerOrder[b.currentPlayer],
          !.hand = [s.hand EXCEPT
              !.phase = "bidding",
              !.seed = d.seed,
              !.kitty = d.kitty,
              !.kittyPickedUpCards = <<>>,
              !.pointsNoticeSent = FALSE,
              !.hands = d.hands,
              !.trickCards = <<>>,
              !.trickLeadColor = None,
              !.bidder = NoIndex,
              !.winningBid = Null,
              !.trump = None,
              !.kittyPickedUp = FALSE,
              !.capturedByTeam = [T1 |-> <<>>, T2 |-> <<>>],
              !.lastTrickWinnerTeam = None,
              !.handPoints = Null,
              !.handScores = Null,
              !.biddersSet = Null,
              !.undoAvailableForPlayerId = None,
              !.undoState = Null],
          !.winnerTeam = NoIndex]

\* reduceGameState that awards every completed bidding to the dealer
reduceGameStateDealerWins(s, playerId, action) ==
    IF s.phase # "bidding" THEN Thrown("bidding not active")
    ELSE IF ~findPlayerIndex(s.playerOrder, playerId).ok THEN Thrown("player not seated")
    ELSE LET playerIndex == findPlayerIndex(s.playerOrder, playerId).value
         IN IF playerIndex # s.bidding.currentPlayer
            THEN Thrown("Action must be taken by the current player.")
            ELSE LET biddingAction ==
                         CASE action.type = "bid" -> BidAction(playerIndex, action.amount)
                           [] action.type = "pass" -> PassAction(playerIndex)
                           [] OTHER -> PassPartnerAction(playerIndex)
                     applied == applyBiddingAction(s.bidding, biddingAction)
                 IN IF ~applied.ok THEN applied
                    ELSE LET b == applied.state
                             fallbackDealerBid ==
                                 [player |-> s.dealerIndex, amount |-> DEFAULT_MIN_BID]
                             winningBid == fallbackDealerBid
                             bidder == winningBid.player
                         IN IF ~isBiddingComplete(b)
                            THEN Returned([s EXCEPT
                                    !.bidding = b,
                                    !.whoseTurnSeat = s.seatOrder[b.currentPlayer],
                                    !.whoseTurnPlayerId = s.playerOrder[b.currentPlayer]])
                            ELSE Returned([s EXCEPT
                                    !.phase = "kitty",
                                    !.bidding = IF b.highBid # Null THEN b
                                                ELSE [b EXCEPT !.highBid = fallbackDealerBid],
                                    !.whoseTurnSeat = s.seatOrder[bidder],
                                    !.whoseTurnPlayerId = s.playerOrder[bidder],
                                    !.hand = [s.hand EXCEPT
                                        !.phase = "kitty",
                                        !.winningBid = winningBid,
                                        !.bidder = bidder,
                                        !.hands = [s.hand.hands EXCEPT
                                                     ![bidder] = @ \o s.hand.kitty],
                                        !.kitty = <<>>,
                                        !.kittyPickedUpCards = s.hand.kitty,
                                        !.kittyPickedUp = TRUE,
                                        !.undoAvailableForPlayerId = None,
                                        !.undoState = Null]])

\* reduceGameState that leaves the kitty cards out of the bidder's hand
reduceGameStateKittyLost(s, playerId, action) ==
    IF s.phase # "bidding" THEN Thrown("bidding not active")
    ELSE IF ~findPlayerIndex(s.playerOrder, playerId).ok THEN Thrown("player not seated")
    ELSE LET playerIndex == findPlayerIndex(s.playerOrder, playerId).value
         IN IF playerIndex # s.bidding.currentPlayer
            THEN Thrown("Action must be taken by the current player.")
            ELSE LET biddingAction ==
                         CASE action.type = "bid" -> BidAction(playerIndex, action.amount)
                           [] action.type = "pass" -> PassAction(playerIndex)
                           [] OTHER -> PassPartnerAction(playerIndex)
                     applied == applyBiddingAction(s.bidding, biddingAction)
                 IN IF ~applied.ok THEN applied
                    ELSE LET b == applied.state
                             fallbackDealerBid ==
                                 [player |-> s.dealerIndex, amount |-> DEFAULT_MIN_BID]
                             winningBid == IF getWinningBid(b) # Null THEN getWinningBid(b)
                                           ELSE fallbackDealerBid
                             bidder == winningBid.player
                         IN IF ~isBiddingComplete(b)
                            THEN Returned([s EXCEPT
                                    !.bidding = b,
                                    !.whoseTurnSeat = s.seatOrder[b.currentPlayer],
                                    !.whoseTurnPlayerId = s.playerOrder[b.currentPlayer]])
                            ELSE Returned([s EXCEPT
                                    !.phase = "kitty",
                                    !.bidding = IF b.highBid # Null THEN b
                                                ELSE [b EXCEPT !.highBid = fallbackDealerBid],
                                    !.whoseTurnSeat = s.seatOrder[bidder],
                                    !.whoseTurnPlayerId = s.playerOrder[bidder],
                                    !.hand = [s.hand EXCEPT
                                        !.phase = "kitty",
                                        !.winningBid = winningBid,
                                        !.bidder = bidder,
                                        !.kitty = <<>>,
                                        !.kittyPickedUpCards = s.hand.kitty,
                                        !.kittyPickedUp = TRUE,
                                        !.undoAvailableForPlayerId = None,
                                        !.undoState = Null]])

\* reduceGameState that leaves the kitty for the bidder to pick up
reduceGameStateLeavesKitty(s, playerId, action) ==
    IF s.phase # "bidding" THEN Thrown("bidding not active")
    ELSE IF ~findPlayerIndex(s.playerOrder, playerId).ok THEN Thrown("player not seated")
    ELSE LET playerIndex == findPlayerIndex(s.playerOrder, playerId).value
         IN IF playerIndex # s.bidding.currentPlayer
            THEN Thrown("Action must be taken by the current player.")
            ELSE LET biddingAction ==
                         CASE action.type = "bid" -> BidAction(playerIndex, action.amount)
                           [] action.type = "pass" -> PassAction(playerIndex)
                           [] OTHER -> PassPartnerAction(playerIndex)
                     applied == applyBiddingAction(s.bidding, biddingAction)
                 IN IF ~applied.ok THEN applied
                    ELSE LET b == applied.state
                             fallbackDealerBid ==
                                 [player |-> s.dealerIndex, amount |-> DEFAULT_MIN_BID]
                             winningBid == IF getWinningBid(b) # Null THEN getWinningBid(b)
                                           ELSE fallbackDealerBid
                             bidder == winningBid.player
                         IN IF ~isBiddingComplete(b)
                            THEN Returned([s EXCEPT
                                    !.bidding = b,
                                    !.whoseTurnSeat = s.seatOrder[b.currentPlayer],
                                    !.whoseTurnPlayerId = s.playerOrder[b.currentPlayer]])
                            ELSE Returned([s EXCEPT
                                    !.phase = "kitty",
                                    !.bidding = IF b.highBid # Null THEN b
                                                ELSE [b EXCEPT !.highBid = fallbackDealerBid],
                                    !.whoseTurnSeat = s.seatOrder[bidder],
                                    !.whoseTurnPlayerId = s.playerOrder[bidder],
                                    !.hand = [s.hand EXCEPT
                                        !.phase = "kitty",
                                        !.winningBid = winningBid,
                                        !.bidder = bidder,
                                        !.kittyPickedUp = FALSE,
                                        !.undoAvailableForPlayerId = None,
                                        !.undoState = Null]])

\* reduceGameState: Returned(next state) or the thrown Error
reduceGameState(s, playerId, action) ==
    IF s.phase # "bidding" THEN Thrown("bidding not active")
    ELSE IF ~findPlayerIndex(s.playerOrder, playerId).ok THEN Thrown("player not seated")
    ELSE LET playerIndex == findPlayerIndex(s.playerOrder, playerId).value
         IN IF playerIndex # s.bidding.currentPlayer
            THEN Thrown("Action must be taken by the current player.")
            ELSE LET biddingAction ==
                         CASE action.type = "bid" -> BidAction(playerIndex, action.amount)
                           [] action.type = "pass" -> PassAction(playerIndex)
                           [] OTHER -> PassPartnerAction(playerIndex)
                     applied == applyBiddingAction(s.bidding, biddingAction)
                 IN IF ~applied.ok THEN applied
                    ELSE LET b == applied.state
                             fallbackDealerBid ==
                                 [player |-> s.dealerIndex, amount |-> DEFAULT_MIN_BID]
                             winningBid == IF getWinningBid(b) # Null THEN getWinningBid(b)
                                           ELSE fallbackDealerBid
                             bidder == winningBid.player
                         IN IF ~isBiddingComplete(b)
                            THEN Returned([s EXCEPT
                                    !.bidding = b,
                                    !.whoseTurnSeat = s.seatOrder[b.currentPlayer],
                                    !.whoseTurnPlayerId = s.playerOrder[b.currentPlayer]])
                            ELSE Returned([s EXCEPT
                                    !.phase = "kitty",
                                    !.bidding = IF b.highBid # Null THEN b
                                                ELSE [b EXCEPT !.highBid = fallbackDealerBid],
                                    !.whoseTurnSeat = s.seatOrder[bidder],
                                    !.whoseTurnPlayerId = s.playerOrder[bidder],
                                    !.hand = [s.hand EXCEPT
                                        !.phase = "kitty",
                                        !.winningBid = winningBid,
                                        !.bidder = bidder,
                                        !.hands = [s.hand.hands EXCEPT
                                                     ![bidder] = @ \o s.hand.kitty],
                                        !.kitty = <<>>,
                                        !.kittyPickedUpCards = s.hand.kitty,
                                        !.kittyPickedUp = TRUE,
                                        !.undoAvailableForPlayerId = None,
                                        !.undoState = Null]])

\* ensureBidder that lets every player act for the bidder
ensureBidderAnyPlayer(s, playerId) ==
    IF s.hand.bidder = NoIndex THEN Err("no winning bid")
    ELSE Ok(s.hand.bidder)

ensureBidder(s, playerId) ==
    IF s.hand.bidder = NoIndex THEN Err("no winning bid")
    ELSE IF s.playerOrder[s.hand.bidder] # playerId THEN Err("only the bidder may act")
    ELSE Ok(s.hand.bidder)

\* the number of cards of `cards` with the id `id`
countOf(cards, id) == Cardinality({i \in 1 .. Len(cards) : cardId(cards[i]) = id})

\* the loop of removeCards over `hand`: a card is skipped while cards of its
\* id remain to be removed (`taken` counts those already skipped, per id)
RECURSIVE removeLoop(_, _, _, _)
removeLoop(hand, cards, taken, next) ==
    IF hand = <<>> THEN next
    ELSE LET id == cardId(Head(hand))
             done == Cardinality({i \in 1 .. Len(taken) : taken[i] = id})
         IN IF countOf(cards, id) - done > 0
            THEN removeLoop(Tail(hand), cards, Append(taken, id), next)
            ELSE removeLoop(Tail(hand), cards, taken, Append(next, Head(hand)))

\* removeCards that checks the cards but removes none
removeCardsKeepingHand(hand, cards) ==
    IF \E i \in 1 .. Len(cards) :
           countOf(cards, cardId(cards[i])) > countOf(hand, cardId(cards[i]))
    THEN Err("discard cards missing from hand")
    ELSE Ok(hand)

\* removeCards that does not look for requested cards the hand lacks
removeCardsUnchecked(hand, cards) == Ok(removeLoop(hand, cards, <<>>, <<>>))

removeCards(hand, cards) ==
    IF \E i \in 1 .. Len(cards) :
           countOf(cards, cardId(cards[i])) > countOf(hand, cardId(cards[i]))
    THEN Err("discard cards missing from hand")
    ELSE Ok(removeLoop(hand, cards, <<>>, <<>>))

----------------------------------------------------------------------------
(* apps/server/src/game.ts: class GameStore.  Each method is an operator   *)
(* from the stored state (Null when the room has no game) and the call's   *)
(* arguments to the GameResult it returns; on Ok the value is the state    *)
(* that the method stored.                                                 *)

\* rebindSeat that always hands the turn to the new player
rebindSeatTakesTurn(s, seat, newPlayerId) ==
    IF s = Null THEN Err("game missing")
    ELSE IF IndexOf(s.seatOrder, seat) = NoIndex THEN Err("invalid seat")
    ELSE Ok([s EXCEPT
            !.playerOrder = [s.playerOrder EXCEPT ![IndexOf(s.seatOrder, seat)] = newPlayerId],
            !.whoseTurnPlayerId = newPlayerId])

rebindSeat(s, seat, newPlayerId) ==
    IF s = Null THEN Err("game missing")
    ELSE IF IndexOf(s.seatOrder, seat) = NoIndex THEN Err("invalid seat")
    ELSE Ok([s EXCEPT
            !.playerOrder = [s.playerOrder EXCEPT ![IndexOf(s.seatOrder, seat)] = newPlayerId],
            !.whoseTurnPlayerId = IF s.whoseTurnSeat = seat THEN newPlayerId
                                  ELSE s.whoseTurnPlayerId])

startGame(roomState, settings) ==
    IF ~isRoomReadyForGame(roomState).ok THEN isRoomReadyForGame(roomState)
    ELSE createPreDealState(roomState.seats, settings)

\* applyAction catches what reduceGameState throws and returns it as an error
applyAction(s, playerId, action) ==
    IF s = Null THEN Err("game missing")
    ELSE LET reduced == reduceGameState(s, playerId, action)
         IN IF reduced.ok THEN Ok(reduced.state) ELSE Err(reduced.error)

\* dealHand that any player may call
dealHandByAnyone(s, playerId, rookRankMode, seed) ==
    IF s = Null THEN Err("game missing")
    ELSE IF s.phase # "preDeal" THEN Err("deal not ready")
    ELSE LET mode == IF rookRankMode = None THEN s.rookRankMode ELSE rookRankMode
         IN IF mode # "rookHigh" /\ mode # "rookLow" THEN Err("invalid rook rank mode")
            ELSE Ok(dealCurrentHand(s, mode, seed))

\* rookRankMode = None stands for the omitted argument
dealHand(s, playerId, rookRankMode, seed) ==
    IF s = Null THEN Err("game missing")
    ELSE IF s.phase # "preDeal" THEN Err("deal not ready")
    ELSE IF s.playerOrder[s.dealerIndex] # playerId THEN Err("only dealer may deal")
    ELSE LET mode == IF rookRankMode = None THEN s.rookRankMode ELSE rookRankMode
         IN IF mode # "rookHigh" /\ mode # "rookLow" THEN Err("invalid rook rank mode")
            ELSE Ok(dealCurrentHand(s, mode, seed))

pickupKitty(s, playerId) ==
    IF s = Null THEN Err("game missing")
    ELSE IF s.phase # "kitty" THEN Err("kitty not available")
    ELSE IF ~ensureBidder(s, playerId).ok THEN ensureBidder(s, playerId)
    ELSE IF s.hand.kittyPickedUp THEN Err("kitty already picked up")
    ELSE LET bidderIndex == ensureBidder(s, playerId).value
         IN Ok([s EXCEPT !.hand = [s.hand EXCEPT
                    !.hands = [s.hand.hands EXCEPT ![bidderIndex] = @ \o s.hand.kitty],
                    !.kitty = <<>>,
                    !.kittyPickedUpCards = s.hand.kitty,
                    !.kittyPickedUp = TRUE,
                    !.undoAvailableForPlayerId = None,
                    !.undoState = Null]])

\* on Ok the result also carries pointsNotice
discardKitty(s, playerId, cards) ==
    IF s = Null THEN Err("game missing")
    ELSE IF s.phase # "kitty" THEN Err("kitty not available")
    ELSE IF ~ensureBidder(s, playerId).ok THEN ensureBidder(s, playerId)
    ELSE IF ~s.hand.kittyPickedUp THEN Err("kitty must be picked up first")
    ELSE IF Len(cards) # s.hand.kittySize THEN Err("discard must match kitty size")
    ELSE LET bidderIndex == ensureBidder(s, playerId).value
             nextHandResult == removeCards(s.hand.hands[bidderIndex], cards)
             pointsInKitty == \E i \in 1 .. Len(cards) : isPointCard(cards[i])
         IN IF ~nextHandResult.ok THEN nextHandResult
            ELSE [ ok |-> TRUE,
                   pointsNotice |-> pointsInKitty /\ ~s.hand.pointsNoticeSent,
                   value |-> [s EXCEPT
                       !.phase = "declareTrump",
                       !.whoseTurnSeat = s.seatOrder[bidderIndex],
                       !.whoseTurnPlayerId = s.playerOrder[bidderIndex],
                       !.hand = [s.hand EXCEPT
                           !.phase = "declareTrump",
                           !.kitty = cards,
                           !.kittyPickedUpCards = <<>>,
                           !.pointsNoticeSent = s.hand.pointsNoticeSent \/ pointsInKitty,
                           !.hands = [s.hand.hands EXCEPT
                                        ![bidderIndex] = nextHandResult.value],
                           !.undoAvailableForPlayerId = None,
                           !.undoState = Null]] ]

\* declareTrump that does not wait for the discard
declareTrumpInAnyPhase(s, playerId, trump) ==
    IF s = Null THEN Err("game missing")
    ELSE IF ~ensureBidder(s, playerId).ok THEN ensureBidder(s, playerId)
    ELSE LET bidderIndex == ensureBidder(s, playerId).value
         IN Ok([s EXCEPT
                !.phase = "trick",
                !.whoseTurnSeat = s.seatOrder[bidderIndex],
                !.whoseTurnPlayerId = s.playerOrder[bidderIndex],
                !.hand = [s.hand EXCEPT
                    !.phase = "trick",
                    !.trickCards = <<>>,
                    !.trickLeadColor = None,
                    !.trump = trump,
                    !.undoAvailableForPlayerId = None,
                    !.undoState = Null]])

declareTrump(s, playerId, trump) ==
    IF s = Null THEN Err("game missing")
    ELSE IF s.phase # "declareTrump" THEN Err("trump not ready")
    ELSE IF ~ensureBidder(s, playerId).ok THEN ensureBidder(s, playerId)
    ELSE LET bidderIndex == ensureBidder(s, playerId).value
         IN Ok([s EXCEPT
                !.phase = "trick",
                !.whoseTurnSeat = s.seatOrder[bidderIndex],
                !.whoseTurnPlayerId = s.playerOrder[bidderIndex],
                !.hand = [s.hand EXCEPT
                    !.phase = "trick",
                    !.trickCards = <<>>,
                    !.trickLeadColor = None,
                    !.trump = trump,
                    !.undoAvailableForPlayerId = None,
                    !.undoState = Null]])

\* undoPlay that restores the snapshot but leaves the turn where it is
undoPlayKeepsTurn(s, playerId) ==
    IF s = Null THEN Err("game missing")
    ELSE IF s.hand.undoAvailableForPlayerId = None \/ s.hand.undoState = Null
         THEN Err("no undo available")
    ELSE IF s.hand.undoAvailableForPlayerId # playerId
         THEN Err("only the last player may undo")
    ELSE IF s.phase # "trick" THEN Err("undo window closed")
    ELSE IF Len(s.hand.trickCards) = 0 THEN Err("undo window closed")
    ELSE Ok([s.hand.undoState EXCEPT
            !.whoseTurnSeat = s.whoseTurnSeat,
            !.whoseTurnPlayerId = s.whoseTurnPlayerId,
            !.hand = [s.hand.undoState.hand EXCEPT
                !.undoAvailableForPlayerId = None,
                !.undoState = Null]])

\* undoPlay that any player may call
undoPlayByAnyone(s, playerId) ==
    IF s = Null THEN Err("game missing")
    ELSE IF s.hand.undoAvailableForPlayerId = None \/ s.hand.undoState = Null
         THEN Err("no undo available")
    ELSE IF s.phase # "trick" THEN Err("undo window closed")
    ELSE IF Len(s.hand.trickCards) = 0 THEN Err("undo window closed")
    ELSE Ok([s.hand.undoState EXCEPT
            !.hand = [s.hand.undoState.hand EXCEPT
                !.undoAvailableForPlayerId = None,
                !.undoState = Null]])

undoPlay(s, playerId) ==
    IF s = Null THEN Err("game missing")
    ELSE IF s.hand.undoAvailableForPlayerId = None \/ s.hand.undoState = Null
         THEN Err("no undo available")
    ELSE IF s.hand.undoAvailableForPlayerId # playerId
         THEN Err("only the last player may undo")
    ELSE IF s.phase # "trick" THEN Err("undo window closed")
    ELSE IF Len(s.hand.trickCards) = 0 THEN Err("undo window closed")
    ELSE Ok([s.hand.undoState EXCEPT
            !.hand = [s.hand.undoState.hand EXCEPT
                !.undoAvailableForPlayerId = None,
                !.undoState = Null]])

\* playAccepted in which a Rook that is led sets no lead color
playAcceptedRookLeadsNoColor(s, playerId, playerIndex, card) ==
    LET seatCount == 4
        trickNeedsReset == Len(s.hand.trickCards) >= seatCount
        effectiveTrickCards == IF trickNeedsReset THEN <<>> ELSE s.hand.trickCards
        effectiveTrickLeadColor == IF trickNeedsReset THEN None ELSE s.hand.trickLeadColor
        trump == s.hand.trump
        hands == [s.hand.hands EXCEPT
                    ![playerIndex] = removeCards(s.hand.hands[playerIndex], <<card>>).value]
        nextLeadColor ==
            IF effectiveTrickLeadColor # None THEN effectiveTrickLeadColor
            ELSE IF card.kind = "suit" THEN card.color ELSE None
        nextTrickCards ==
            Append(effectiveTrickCards, [seat |-> s.seatOrder[playerIndex], card |-> card])
        trickCompleted == Len(nextTrickCards) >= seatCount
        playedCards == [i \in 1 .. Len(nextTrickCards) |-> nextTrickCards[i].card]
        winnerCardIndex ==
            determineTrickWinner(playedCards, nextLeadColor, trump, s.rookRankMode)
        winnerSeat == IF winnerCardIndex \in 0 .. (Len(nextTrickCards) - 1)
                      THEN nextTrickCards[winnerCardIndex + 1].seat
                      ELSE s.seatOrder[playerIndex]
        winnerIndex == IndexOf(s.seatOrder, winnerSeat)
        resolvedIndex == IF winnerIndex = NoIndex THEN playerIndex ELSE winnerIndex
        key == teamKey(teamOf(resolvedIndex))
        capturedByTeam ==
            IF trickCompleted
            THEN [s.hand.capturedByTeam EXCEPT ![key] = @ \o playedCards]
            ELSE s.hand.capturedByTeam
        lastTrickWinnerTeam ==
            IF trickCompleted THEN key ELSE s.hand.lastTrickWinnerTeam
        turnIndex == IF trickCompleted THEN resolvedIndex ELSE (playerIndex + 1) % seatCount
        handComplete == trickCompleted /\ \A p \in Players : Len(hands[p]) = 0
        winningBid == s.hand.winningBid
        bidAmount == IF winningBid # Null THEN winningBid.amount ELSE 0
        biddingTeam == IF winningBid # Null THEN teamOf(winningBid.player) ELSE 0
        resolvedLastTrickTeam ==
            IF lastTrickWinnerTeam = None THEN teamKey(biddingTeam) ELSE lastTrickWinnerTeam
        scored == scoreHand(
                      [t \in Teams |-> capturedByTeam[teamKey(t)]],
                      IF resolvedLastTrickTeam = "T1" THEN 0 ELSE 1,
                      s.hand.kitty, biddingTeam, bidAmount)
        scores == IF handComplete
                  THEN [t \in Teams |-> s.scores[t] + scored.scores[t]]
                  ELSE s.scores
        winnerTeam == IF scores[0] >= s.targetScore THEN 0
                      ELSE IF scores[1] >= s.targetScore THEN 1
                      ELSE NoIndex
        phase == IF handComplete
                 THEN (IF winnerTeam = NoIndex THEN "score" ELSE "gameOver")
                 ELSE s.phase
        undoAllowed == ~trickCompleted /\ Len(nextTrickCards) > 0 /\ phase = "trick"
    IN [s EXCEPT
          !.phase = phase,
          !.whoseTurnSeat = s.seatOrder[turnIndex],
          !.whoseTurnPlayerId = s.playerOrder[turnIndex],
          !.scores = scores,
          !.gameScore = scores,
          !.winnerTeam = winnerTeam,
          !.hand = [s.hand EXCEPT
              !.phase = IF handComplete THEN phase ELSE s.hand.phase,
              !.hands = hands,
              !.trickCards = nextTrickCards,
              !.trickLeadColor = nextLeadColor,
              !.capturedByTeam = capturedByTeam,
              !.lastTrickWinnerTeam = lastTrickWinnerTeam,
              !.handPoints = IF handComplete THEN scored.points ELSE s.hand.handPoints,
              !.handScores = IF handComplete THEN scored.scores ELSE s.hand.handScores,
              !.biddersSet = IF handComplete
                             THEN scored.points[biddingTeam] < bidAmount
                             ELSE s.hand.biddersSet,
              !.undoAvailableForPlayerId = IF undoAllowed THEN playerId ELSE None,
              !.undoState = IF undoAllowed
                            THEN [s EXCEPT !.hand = [s.hand EXCEPT
                                     !.undoAvailableForPlayerId = None,
                                     !.undoState = Null]]
                            ELSE Null]]

\* playAccepted that never resets the buffer of a completed trick
playAcceptedKeepsBuffer(s, playerId, playerIndex, card) ==
    LET seatCount == 4
        trickNeedsReset == FALSE
        effectiveTrickCards == IF trickNeedsReset THEN <<>> ELSE s.hand.trickCards
        effectiveTrickLeadColor == IF trickNeedsReset THEN None ELSE s.hand.trickLeadColor
        trump == s.hand.trump
        hands == [s.hand.hands EXCEPT
                    ![playerIndex] = removeCards(s.hand.hands[playerIndex], <<card>>).value]
        nextLeadColor ==
            IF effectiveTrickLeadColor # None THEN effectiveTrickLeadColor
            ELSE IF card.kind = "suit" THEN card.color ELSE trump
        nextTrickCards ==
            Append(effectiveTrickCards, [seat |-> s.seatOrder[playerIndex], card |-> card])
        trickCompleted == Len(nextTrickCards) >= seatCount
        playedCards == [i \in 1 .. Len(nextTrickCards) |-> nextTrickCards[i].card]
        winnerCardIndex ==
            determineTrickWinner(playedCards, nextLeadColor, trump, s.rookRankMode)
        winnerSeat == IF winnerCardIndex \in 0 .. (Len(nextTrickCards) - 1)
                      THEN nextTrickCards[winnerCardIndex + 1].seat
                      ELSE s.seatOrder[playerIndex]
        winnerIndex == IndexOf(s.seatOrder, winnerSeat)
        resolvedIndex == IF winnerIndex = NoIndex THEN playerIndex ELSE winnerIndex
        key == teamKey(teamOf(resolvedIndex))
        capturedByTeam ==
            IF trickCompleted
            THEN [s.hand.capturedByTeam EXCEPT ![key] = @ \o playedCards]
            ELSE s.hand.capturedByTeam
        lastTrickWinnerTeam ==
            IF trickCompleted THEN key ELSE s.hand.lastTrickWinnerTeam
        turnIndex == IF trickCompleted THEN resolvedIndex ELSE (playerIndex + 1) % seatCount
        handComplete == trickCompleted /\ \A p \in Players : Len(hands[p]) = 0
        winningBid == s.hand.winningBid
        bidAmount == IF winningBid # Null THEN winningBid.amount ELSE 0
        biddingTeam == IF winningBid # Null THEN teamOf(winningBid.player) ELSE 0
        resolvedLastTrickTeam ==
            IF lastTrickWinnerTeam = None THEN teamKey(biddingTeam) ELSE lastTrickWinnerTeam
        scored == scoreHand(
                      [t \in Teams |-> capturedByTeam[teamKey(t)]],
                      IF resolvedLastTrickTeam = "T1" THEN 0 ELSE 1,
                      s.hand.kitty, biddingTeam, bidAmount)
        scores == IF handComplete
                  THEN [t \in Teams |-> s.scores[t] + scored.scores[t]]
                  ELSE s.scores
        winnerTeam == IF scores[0] >= s.targetScore THEN 0
                      ELSE IF scores[1] >= s.targetScore THEN 1
                      ELSE NoIndex
        phase == IF handComplete
                 THEN (IF winnerTeam = NoIndex THEN "score" ELSE "gameOver")
                 ELSE s.phase
        undoAllowed == ~trickCompleted /\ Len(nextTrickCards) > 0 /\ phase = "trick"
    IN [s EXCEPT
          !.phase = phase,
          !.whoseTurnSeat = s.seatOrder[turnIndex],
          !.whoseTurnPlayerId = s.playerOrder[turnIndex],
          !.scores = scores,
          !.gameScore = scores,
          !.winnerTeam = winnerTeam,
          !.hand = [s.hand EXCEPT
              !.phase = IF handComplete THEN phase ELSE s.hand.phase,
              !.hands = hands,
              !.trickCards = nextTrickCards,
              !.trickLeadColor = nextLeadColor,
              !.capturedByTeam = capturedByTeam,
              !.lastTrickWinnerTeam = lastTrickWinnerTeam,
              !.handPoints = IF handComplete THEN scored.points ELSE s.hand.handPoints,
              !.handScores = IF handComplete THEN scored.scores ELSE s.hand.handScores,
              !.biddersSet = IF handComplete
                             THEN scored.points[biddingTeam] < bidAmount
                             ELSE s.hand.biddersSet,
              !.undoAvailableForPlayerId = IF undoAllowed THEN playerId ELSE None,
              !.undoState = IF undoAllowed
                            THEN [s EXCEPT !.hand = [s.hand EXCEPT
                                     !.undoAvailableForPlayerId = None,
                                     !.undoState = Null]]
                            ELSE Null]]

\* playAccepted that scores the hand at every completed trick
playAcceptedScoresEveryTrick(s, playerId, playerIndex, card) ==
    LET seatCount == 4
        trickNeedsReset == Len(s.hand.trickCards) >= seatCount
        effectiveTrickCards == IF trickNeedsReset THEN <<>> ELSE s.hand.trickCards
        effectiveTrickLeadColor == IF trickNeedsReset THEN None ELSE s.hand.trickLeadColor
        trump == s.hand.trump
        hands == [s.hand.hands EXCEPT
                    ![playerIndex] = removeCards(s.hand.hands[playerIndex], <<card>>).value]
        nextLeadColor ==
            IF effectiveTrickLeadColor # None THEN effectiveTrickLeadColor
            ELSE IF card.kind = "suit" THEN card.color ELSE trump
        nextTrickCards ==
            Append(effectiveTrickCards, [seat |-> s.seatOrder[playerIndex], card |-> card])
        trickCompleted == Len(nextTrickCards) >= seatCount
        playedCards == [i \in 1 .. Len(nextTrickCards) |-> nextTrickCards[i].card]
        winnerCardIndex ==
            determineTrickWinner(playedCards, nextLeadColor, trump, s.rookRankMode)
        winnerSeat == IF winnerCardIndex \in 0 .. (Len(nextTrickCards) - 1)
                      THEN nextTrickCards[winnerCardIndex + 1].seat
                      ELSE s.seatOrder[playerIndex]
        winnerIndex == IndexOf(s.seatOrder, winnerSeat)
        resolvedIndex == IF winnerIndex = NoIndex THEN playerIndex ELSE winnerIndex
        key == teamKey(teamOf(resolvedIndex))
        capturedByTeam ==
            IF trickCompleted
            THEN [s.hand.capturedByTeam EXCEPT ![key] = @ \o playedCards]
            ELSE s.hand.capturedByTeam
        lastTrickWinnerTeam ==
            IF trickCompleted THEN key ELSE s.hand.lastTrickWinnerTeam
        turnIndex == IF trickCompleted THEN resolvedIndex ELSE (playerIndex + 1) % seatCount
        handComplete == trickCompleted
        winningBid == s.hand.winningBid
        bidAmount == IF winningBid # Null THEN winningBid.amount ELSE 0
        biddingTeam == IF winningBid # Null THEN teamOf(winningBid.player) ELSE 0
        resolvedLastTrickTeam ==
            IF lastTrickWinnerTeam = None THEN teamKey(biddingTeam) ELSE lastTrickWinnerTeam
        scored == scoreHand(
                      [t \in Teams |-> capturedByTeam[teamKey(t)]],
                      IF resolvedLastTrickTeam = "T1" THEN 0 ELSE 1,
                      s.hand.kitty, biddingTeam, bidAmount)
        scores == IF handComplete
                  THEN [t \in Teams |-> s.scores[t] + scored.scores[t]]
                  ELSE s.scores
        winnerTeam == IF scores[0] >= s.targetScore THEN 0
                      ELSE IF scores[1] >= s.targetScore THEN 1
                      ELSE NoIndex
        phase == IF handComplete
                 THEN (IF winnerTeam = NoIndex THEN "score" ELSE "gameOver")
                 ELSE s.phase
        undoAllowed == ~trickCompleted /\ Len(nextTrickCards) > 0 /\ phase = "trick"
    IN [s EXCEPT
          !.phase = phase,
          !.whoseTurnSeat = s.seatOrder[turnIndex],
          !.whoseTurnPlayerId = s.playerOrder[turnIndex],
          !.scores = scores,
          !.gameScore = scores,
          !.winnerTeam = winnerTeam,
          !.hand = [s.hand EXCEPT
              !.phase = IF handComplete THEN phase ELSE s.hand.phase,
              !.hands = hands,
              !.trickCards = nextTrickCards,
              !.trickLeadColor = nextLeadColor,
              !.capturedByTeam = capturedByTeam,
              !.lastTrickWinnerTeam = lastTrickWinnerTeam,
              !.handPoints = IF handComplete THEN scored.points ELSE s.hand.handPoints,
              !.handScores = IF handComplete THEN scored.scores ELSE s.hand.handScores,
              !.biddersSet = IF handComplete
                             THEN scored.points[biddingTeam] < bidAmount
                             ELSE s.hand.biddersSet,
              !.undoAvailableForPlayerId = IF undoAllowed THEN playerId ELSE None,
              !.undoState = IF undoAllowed
                            THEN [s EXCEPT !.hand = [s.hand EXCEPT
                                     !.undoAvailableForPlayerId = None,
                                     !.undoState = Null]]
                            ELSE Null]]

\* the part of playCard after the checks: `playerIndex` plays `card`, a legal play
playAccepted(s, playerId, playerIndex, card) ==
    LET seatCount == 4
        trickNeedsReset == Len(s.hand.trickCards) >= seatCount
        effectiveTrickCards == IF trickNeedsReset THEN <<>> ELSE s.hand.trickCards
        effectiveTrickLeadColor == IF trickNeedsReset THEN None ELSE s.hand.trickLeadColor
        trump == s.hand.trump
        hands == [s.hand.hands EXCEPT
                    ![playerIndex] = removeCards(s.hand.hands[playerIndex], <<card>>).value]
        nextLeadColor ==
            IF effectiveTrickLeadColor # None THEN effectiveTrickLeadColor
            ELSE IF card.kind = "suit" THEN card.color ELSE trump
        nextTrickCards ==
            Append(effectiveTrickCards, [seat |-> s.seatOrder[playerIndex], card |-> card])
        trickCompleted == Len(nextTrickCards) >= seatCount
        playedCards == [i \in 1 .. Len(nextTrickCards) |-> nextTrickCards[i].card]
        winnerCardIndex ==
            determineTrickWinner(playedCards, nextLeadColor, trump, s.rookRankMode)
        winnerSeat == IF winnerCardIndex \in 0 .. (Len(nextTrickCards) - 1)
                      THEN nextTrickCards[winnerCardIndex + 1].seat
                      ELSE s.seatOrder[playerIndex]
        winnerIndex == IndexOf(s.seatOrder, winnerSeat)
        resolvedIndex == IF winnerIndex = NoIndex THEN playerIndex ELSE winnerIndex
        key == teamKey(teamOf(resolvedIndex))
        capturedByTeam ==
            IF trickCompleted
            THEN [s.hand.capturedByTeam EXCEPT ![key] = @ \o playedCards]
            ELSE s.hand.capturedByTeam
        lastTrickWinnerTeam ==
            IF trickCompleted THEN key ELSE s.hand.lastTrickWinnerTeam
        turnIndex == IF trickCompleted THEN resolvedIndex ELSE (playerIndex + 1) % seatCount
        handComplete == trickCompleted /\ \A p \in Players : Len(hands[p]) = 0
        winningBid == s.hand.winningBid
        bidAmount == IF winningBid # Null THEN winningBid.amount ELSE 0
        biddingTeam == IF winningBid # Null THEN teamOf(winningBid.player) ELSE 0
        resolvedLastTrickTeam ==
            IF lastTrickWinnerTeam = None THEN teamKey(biddingTeam) ELSE lastTrickWinnerTeam
        scored == scoreHand(
                      [t \in Teams |-> capturedByTeam[teamKey(t)]],
                      IF resolvedLastTrickTeam = "T1" THEN 0 ELSE 1,
                      s.hand.kitty, biddingTeam, bidAmount)
        scores == IF handComplete
                  THEN [t \in Teams |-> s.scores[t] + scored.scores[t]]
                  ELSE s.scores
        winnerTeam == IF scores[0] >= s.targetScore THEN 0
                      ELSE IF scores[1] >= s.targetScore THEN 1
                      ELSE NoIndex
        phase == IF handComplete
                 THEN (IF winnerTeam = NoIndex THEN "score" ELSE "gameOver")
                 ELSE s.phase
        undoAllowed == ~trickCompleted /\ Len(nextTrickCards) > 0 /\ phase = "trick"
    IN [s EXCEPT
          !.phase = phase,
          !.whoseTurnSeat = s.seatOrder[turnIndex],
          !.whoseTurnPlayerId = s.playerOrder[turnIndex],
          !.scores = scores,
          !.gameScore = scores,
          !.winnerTeam = winnerTeam,
          !.hand = [s.hand EXCEPT
              !.phase = IF handComplete THEN phase ELSE s.hand.phase,
              !.hands = hands,
              !.trickCards = nextTrickCards,
              !.trickLeadColor = nextLeadColor,
              !.capturedByTeam = capturedByTeam,
              !.lastTrickWinnerTeam = lastTrickWinnerTeam,
              !.handPoints = IF handComplete THEN scored.points ELSE s.hand.handPoints,
              !.handScores = IF handComplete THEN scored.scores ELSE s.hand.handScores,
              !.biddersSet = IF handComplete
                             THEN scored.points[biddingTeam] < bidAmount
                             ELSE s.hand.biddersSet,
              !.undoAvailableForPlayerId = IF undoAllowed THEN playerId ELSE None,
              !.undoState = IF undoAllowed
                            THEN [s EXCEPT !.hand = [s.hand EXCEPT
                                     !.undoAvailableForPlayerId = None,
                                     !.undoState = Null]]
                            ELSE Null]]

\* the lead color the play is validated against: none once the buffered
\* trick is complete
effectiveLeadColor(s) ==
    IF Len(s.hand.trickCards) >= 4 THEN None ELSE s.hand.trickLeadColor

playCard(s, playerId, card) ==
    IF s = Null THEN Err("game missing")
    ELSE IF s.phase # "trick" THEN Err("trick not active")
    ELSE IF s.whoseTurnPlayerId # playerId THEN Err("not your turn")
    ELSE IF ~findPlayerIndex(s.playerOrder, playerId).ok
         THEN findPlayerIndex(s.playerOrder, playerId)
    ELSE LET playerIndex == findPlayerIndex(s.playerOrder, playerId).value
             currentHand == s.hand.hands[playerIndex]
             legalPlays == getLegalPlays(currentHand, effectiveLeadColor(s),
                               s.hand.trump, s.rookRankMode)
         IN IF s.hand.trump = None THEN Err("trump not set")
            ELSE IF cardId(card) \notin Range(legalPlays) THEN Err("illegal play")
            ELSE IF ~removeCards(currentHand, <<card>>).ok
                 THEN removeCards(currentHand, <<card>>)
            ELSE Ok(playAccepted(s, playerId, playerIndex, card))

\* nextHand that starts another hand after the game is over
nextHandAfterGameOver(s) ==
    IF s = Null THEN Err("game missing")
    ELSE IF s.phase \notin {"score", "gameOver"} THEN Err("hand not complete")
    ELSE LET dealerIndex == (s.dealerIndex + 1) % 4
             dealerSeat == s.seatOrder[dealerIndex]
         IN Ok([s EXCEPT
                !.phase = "preDeal",
                !.dealerSeat = dealerSeat,
                !.bidding = createBiddingState((dealerIndex + 1) % 4,
                                s.bidding.minBid, s.bidding.step),
                !.hand = emptyHand(s.hand.deckMode, dealerSeat),
                !.whoseTurnSeat = dealerSeat,
                !.whoseTurnPlayerId = s.playerOrder[dealerIndex],
                !.dealerIndex = dealerIndex,
                !.winnerTeam = NoIndex])

\* nextHand that keeps the dealer
nextHandSameDealer(s) ==
    IF s = Null THEN Err("game missing")
    ELSE IF s.phase = "gameOver" THEN Err("game complete")
    ELSE IF s.phase # "score" THEN Err("hand not complete")
    ELSE LET dealerIndex == s.dealerIndex
             dealerSeat == s.seatOrder[dealerIndex]
         IN Ok([s EXCEPT
                !.phase = "preDeal",
                !.dealerSeat = dealerSeat,
                !.bidding = createBiddingState((dealerIndex + 1) % 4,
                                s.bidding.minBid, s.bidding.step),
                !.hand = emptyHand(s.hand.deckMode, dealerSeat),
                !.whoseTurnSeat = dealerSeat,
                !.whoseTurnPlayerId = s.playerOrder[dealerIndex],
                !.dealerIndex = dealerIndex,
                !.winnerTeam = NoIndex])

nextHand(s) ==
    IF s = Null THEN Err("game missing")
    ELSE IF s.phase = "gameOver" THEN Err("game complete")
    ELSE IF s.phase # "score" THEN Err("hand not complete")
    ELSE LET dealerIndex == (s.dealerIndex + 1) % 4
             dealerSeat == s.seatOrder[dealerIndex]
         IN Ok([s EXCEPT
                !.phase = "preDeal",
                !.dealerSeat = dealerSeat,
                !.bidding = createBiddingState((dealerIndex + 1) % 4,
                                s.bidding.minBid, s.bidding.step),
                !.hand = emptyHand(s.hand.deckMode, dealerSeat),
                !.whoseTurnSeat = dealerSeat,
                !.whoseTurnPlayerId = s.playerOrder[dealerIndex],
                !.dealerIndex = dealerIndex,
                !.winnerTeam = NoIndex])

getState(s) == s

----------------------------------------------------------------------------
(* Bounds and inputs of the game specification *)

\* hands dealt in one game
MaxHands == 1
\* inputs other than the default one accepted since the store was created
MaxFrees == 1
\* seeds the deal draws from
NumSeeds == 1

\* the players seated by the lobby, and one more identity (a reconnection)
SeatedIds == [i \in Players |-> <<"p0", "p1", "p2", "p3">>[i + 1]]
PlayerIds == {SeatedIds[i] : i \in Players} \cup {"p4"}
SeatNames == {SEATS[i] : i \in Players}

\* the room snapshots startGame is called with: ready, a seat empty, a player not ready
readyRoom ==
    [ seats |-> [seat \in SeatNames |-> SeatedIds[IndexOf(SEATS, seat)]],
      ready |-> [id \in PlayerIds |-> TRUE] ]
RoomStates ==
    { readyRoom,
      [readyRoom EXCEPT !.seats["T1P2"] = None],
      [readyRoom EXCEPT !.ready["p3"] = FALSE] }

TargetScores == {100, 300}
GameSettings ==
    [ minBid : {DEFAULT_MIN_BID}, step : {DEFAULT_BID_STEP}, startingPlayer : {0},
      deckMode : {"full", "fast"}, rookRankMode : {"rookHigh"},
      targetScore : TargetScores ]

\* a call is made by every player while its phase is on, by one player otherwise
Callers(s, phase) == IF s # Null /\ s.phase = phase THEN PlayerIds ELSE {"p0"}

\* dealHand: the omitted mode (the default), both modes and a mode that does not exist
DealInputs(s) ==
    IF s # Null /\ s.phase = "preDeal"
    THEN [playerId : PlayerIds, mode : {None}, seed : 0 .. (NumSeeds - 1)]
           \cup [playerId : {s.playerOrder[s.dealerIndex]},
                 mode : {"rookHigh", "rookLow", "rookMid"}, seed : {0}]
    ELSE [playerId : {"p0"}, mode : {None}, seed : {0}]

\* amounts submitted in a game: below the minimum, off the step, legal, above the maximum
GameBidAmounts == {95, 100, 103, 110, 205}
GameActions ==
    {[type |-> "pass"], [type |-> "passPartner"]}
        \cup {[type |-> "bid", amount |-> a] : a \in GameBidAmounts}
ActionInputs(s) ==
    IF s # Null /\ s.phase = "bidding"
    THEN [playerId : {s.playerOrder[s.bidding.currentPlayer]}, action : GameActions]
           \cup [playerId : PlayerIds, action : {[type |-> "pass"]}]
    ELSE [playerId : {"p0"}, action : {[type |-> "pass"]}]

\* the seat whose turn it is, as an index
turnIndex(s) == IndexOf(s.seatOrder, s.whoseTurnSeat)

\* the hand playCard reads for the player whose turn it is
handToPlay(s) == s.hand.hands[IndexOf(s.playerOrder, s.whoseTurnPlayerId)]

\* the card played by default: the first legal one of the hand
defaultPlay(s) ==
    LET hand == handToPlay(s)
        legal == getLegalPlays(hand, effectiveLeadColor(s), s.hand.trump, s.rookRankMode)
    IN IF Len(hand) = 0 THEN Rook
       ELSE hand[CHOOSE i \in 1 .. Len(hand) : cardId(hand[i]) = legal[1]]

\* playCard: the player to move submits each card of the hand and the Rook,
\* every player submits the Rook
PlayInputs(s) ==
    IF s # Null /\ s.phase = "trick"
    THEN [playerId : {s.whoseTurnPlayerId}, card : Range(handToPlay(s)) \cup {Rook}]
           \cup [playerId : PlayerIds, card : {Rook}]
    ELSE [playerId : {"p0"}, card : {Rook}]

\* the discard made by default: the five cards picked up
defaultDiscard(s) ==
    LET hand == s.hand.hands[s.hand.bidder]
    IN SubSeq(hand, Len(hand) - 4, Len(hand))

\* discardKitty: the bidder submits every window of 5 cards of the hand (the
\* last one is the kitty as picked up), a window of 4 cards, a window whose
\* first card is doubled and 5 cards with one that is not held; every player
\* submits the first window
DiscardInputs(s) ==
    IF s # Null /\ s.phase = "kitty"
    THEN LET hand == s.hand.hands[s.hand.bidder]
             foreign == s.hand.hands[(s.hand.bidder + 1) % 4][1]
         IN [playerId : {s.playerOrder[s.hand.bidder]},
             cards : {SubSeq(hand, k, k + 4) : k \in 1 .. (Len(hand) - 4)}
                        \cup { SubSeq(hand, 1, 4),
                               <<hand[1]>> \o SubSeq(hand, 1, 4),
                               <<foreign>> \o SubSeq(hand, 1, 4) }]
              \cup [playerId : PlayerIds, cards : {SubSeq(hand, 1, 5)}]
    ELSE [playerId : {"p0"}, cards : {<<>>}]

defaultTrump == "black"

TrumpInputs(s) ==
    IF s # Null /\ s.phase = "declareTrump"
    THEN [playerId : {s.playerOrder[s.hand.bidder]}, trump : Colors]
           \cup [playerId : PlayerIds, trump : {defaultTrump}]
    ELSE [playerId : {"p0"}, trump : {defaultTrump}]

\* rebindSeat: a new identity on two seats, the identity seated at T1P1 on
\* another seat, and a seat that does not exist
RebindInputs ==
    { [seat |-> "T1P1", newPlayerId |-> "p4"], [seat |-> "T2P1", newPlayerId |-> "p4"],
      [seat |-> "T2P1", newPlayerId |-> "p0"], [seat |-> "T3P1", newPlayerId |-> "p4"] }

----------------------------------------------------------------------------
(* The calls of GameStore as actions.  A call stores the new state when it *)
(* succeeds and leaves the stored state alone when it is rejected.         *)

Outcome(r) == [ok |-> r.ok]

\* Stored in which a rejected call has already emptied the undo slot
StoredSlotEmptiedFirst(r, isDefault) ==
    /\ state' = IF r.ok THEN r.value
                ELSE IF state = Null THEN state
                ELSE [state EXCEPT !.hand.undoAvailableForPlayerId = None,
                                   !.hand.undoState = Null]
    /\ result' = Outcome(r)
    /\ IF r.ok /\ ~isDefault
       THEN frees < MaxFrees /\ frees' = frees + 1
       ELSE frees' = frees
    /\ UNCHANGED <<bidding, thrown, probe, room, handState>>

\* the effect of a call that returned r; an accepted input that is not the
\* default one is counted
Stored(r, isDefault) ==
    /\ state' = IF r.ok THEN r.value ELSE state
    /\ result' = Outcome(r)
    /\ IF r.ok /\ ~isDefault
       THEN frees < MaxFrees /\ frees' = frees + 1
       ELSE frees' = frees
    /\ UNCHANGED <<bidding, thrown, probe, room, handState>>

StartGame(roomState, settings) ==
    LET r == startGame(roomState, settings)
    IN /\ Stored(r, TRUE)
       /\ dealt' = IF r.ok THEN 0 ELSE dealt

DealHand(playerId, rookRankMode, seed) ==
    LET r == dealHand(state, playerId, rookRankMode, seed)
    IN /\ r.ok => dealt < MaxHands
       /\ Stored(r, rookRankMode = None /\ seed = 0)
       /\ dealt' = IF r.ok THEN dealt + 1 ELSE dealt

ApplyAction(playerId, action) ==
    /\ Stored(applyAction(state, playerId, action), action.type = "pass")
    /\ UNCHANGED dealt

PickupKitty(playerId) ==
    /\ Stored(pickupKitty(state, playerId), TRUE)
    /\ UNCHANGED dealt

DiscardKitty(playerId, cards) ==
    LET r == discardKitty(state, playerId, cards)
    IN /\ Stored(r, r.ok /\ cards = defaultDiscard(state))
       /\ UNCHANGED dealt

DeclareTrump(playerId, trump) ==
    /\ Stored(declareTrump(state, playerId, trump), trump = defaultTrump)
    /\ UNCHANGED dealt

PlayCard(playerId, card) ==
    LET r == playCard(state, playerId, card)
    IN /\ Stored(r, r.ok /\ card = defaultPlay(state))
       /\ UNCHANGED dealt

UndoPlay(playerId) ==
    /\ Stored(undoPlay(state, playerId), TRUE)
    /\ UNCHANGED dealt

NextHand ==
    /\ Stored(nextHand(state), TRUE)
    /\ UNCHANGED dealt

RebindSeat(seat, newPlayerId) ==
    /\ Stored(rebindSeat(state, seat, newPlayerId), FALSE)
    /\ UNCHANGED dealt

Init ==
    /\ state = Null
    /\ result = [ok |-> TRUE]
    /\ dealt = 0
    /\ frees = 0
    /\ bidding = Null
    /\ thrown = None
    /\ room = Null
    /\ handState = Null
    /\ probe = Null

Next ==
    \/ \E roomState \in RoomStates, settings \in GameSettings :
           StartGame(roomState, settings)
    \/ \E in \in DealInputs(state) : DealHand(in.playerId, in.mode, in.seed)
    \/ \E in \in ActionInputs(state) : ApplyAction(in.playerId, in.action)
    \/ \E playerId \in Callers(state, "kitty") : PickupKitty(playerId)
    \/ \E in \in DiscardInputs(state) : DiscardKitty(in.playerId, in.cards)
    \/ \E in \in TrumpInputs(state) : DeclareTrump(in.playerId, in.trump)
    \/ \E in \in PlayInputs(state) : PlayCard(in.playerId, in.card)
    \/ \E playerId \in Callers(state, "trick") : UndoPlay(playerId)
    \/ NextHand
    \/ \E in \in RebindInputs : RebindSeat(in.seat, in.newPlayerId)

Spec == Init /\ [][Next]_vars

----------------------------------------------------------------------------
(* The bidding engine on its own: applyBiddingAction threaded through a    *)
(* BiddingState, every player submitting every action at every state.     *)

\* raises of one step above the minimum among the submitted amounts
MaxRaises == 2

\* amounts submitted: below the minimum, off the step, the minimum and its
\* raises, the maximum, above the maximum
BidAmounts ==
    {DEFAULT_MIN_BID - DEFAULT_BID_STEP, DEFAULT_MIN_BID + 3, DEFAULT_MAX_BID,
     DEFAULT_MAX_BID + DEFAULT_BID_STEP}
        \cup {DEFAULT_MIN_BID + (k * DEFAULT_BID_STEP) : k \in 0 .. MaxRaises}

\* one call of applyBiddingAction: the state is replaced unless the call throws
Applied(action) ==
    LET r == applyBiddingAction(bidding, action)
    IN /\ bidding' = IF r.ok THEN r.state ELSE bidding
       /\ thrown' = IF r.ok THEN None ELSE r.error
       /\ UNCHANGED <<state, result, dealt, frees, probe, room, handState>>

EngineBid(player, amount) == Applied(BidAction(player, amount))

EnginePass(player) == Applied(PassAction(player))

EnginePassPartner(player) == Applied(PassPartnerAction(player))

InitBidding ==
    /\ \E startingPlayer \in Players :
           bidding = createBiddingState(startingPlayer, DEFAULT_MIN_BID, DEFAULT_BID_STEP)
    /\ thrown = None
    /\ room = Null
    /\ handState = Null
    /\ state = Null
    /\ result = [ok |-> TRUE]
    /\ dealt = 0
    /\ frees = 0
    /\ probe = Null

NextBidding ==
    \/ \E player \in Players, amount \in BidAmounts : EngineBid(player, amount)
    \/ \E player \in Players : EnginePass(player)
    \/ \E player \in Players : EnginePassPartner(player)

SpecBidding == InitBidding /\ [][NextBidding]_vars

----------------------------------------------------------------------------
(* The pure functions of the engine on their own: the initial state draws   *)
(* the arguments of one call, the action of that function applies it.      *)

\* cards of a probed hand
MaxProbeHand == 3
\* cards of a probed trick
MaxProbeTrick == 4

RookRankModes == {"rookHigh", "rookLow"}

\* the lists of at most n distinct elements of S
ListsOf(S, n) ==
    UNION {{f \in [1 .. k -> S] : \A i, j \in 1 .. k : i # j => f[i] # f[j]} : k \in 0 .. n}

HandProbeCards ==
    {SuitCard("red", 10), SuitCard("red", 5), SuitCard("yellow", 2),
     SuitCard("black", 9), SuitCard("black", 1), Rook}

TrickProbeCards ==
    {SuitCard("red", 1), SuitCard("red", 14), SuitCard("red", 2),
     SuitCard("black", 1), SuitCard("black", 13), SuitCard("green", 10), Rook}

LegalPlaysInputs ==
    [ fn : {"getLegalPlays"}, hand : ListsOf(HandProbeCards, MaxProbeHand),
      leadColor : {None, "red", "black", "green"}, trumpColor : {"black", "red"},
      rookRankMode : RookRankModes, applied : {FALSE}, out : {Null} ]

TrickWinnerInputs ==
    [ fn : {"determineTrickWinner"},
      cards : ListsOf(TrickProbeCards, MaxProbeTrick) \ {<<>>},
      leadColor : {None, "red", "black"}, trumpColor : {"black", "green"},
      rookRankMode : RookRankModes, applied : {FALSE}, out : {Null} ]

\* the full deck, its first `r` cards moved to the end
rotatedDeck(r) ==
    LET deck == buildDeck("full")
    IN SubSeq(deck, r + 1, Len(deck)) \o SubSeq(deck, 1, r)

\* the full deck split in a kitty (the first 5 cards of a rotation), the
\* pile of team 0 (the next i cards) and the pile of team 1 (the rest)
ScoreHandInputs ==
    { [ fn |-> "scoreHand",
        capturedByTeam |->
            [t \in Teams |->
                IF t = 0 THEN SubSeq(rotatedDeck(r), KITTY_SIZE + 1, KITTY_SIZE + i)
                ELSE SubSeq(rotatedDeck(r), KITTY_SIZE + i + 1, Len(rotatedDeck(r)))],
        lastTrickTeam |-> last,
        kittyCards |-> SubSeq(rotatedDeck(r), 1, KITTY_SIZE),
        biddingTeam |-> bt,
        bidAmount |-> amount,
        applied |-> FALSE,
        out |-> Null ] :
        r \in {0, 14, 52}, i \in 0 .. 52, last \in Teams, bt \in Teams,
        amount \in {100, 120, 200} }

ApplyGetLegalPlays ==
    /\ probe.fn = "getLegalPlays" /\ ~probe.applied
    /\ probe' = [probe EXCEPT
           !.applied = TRUE,
           !.out = getLegalPlays(probe.hand, probe.leadColor, probe.trumpColor,
                       probe.rookRankMode)]
    /\ UNCHANGED <<state, result, dealt, frees, bidding, thrown, room, handState>>

ApplyDetermineTrickWinner ==
    /\ probe.fn = "determineTrickWinner" /\ ~probe.applied
    /\ probe' = [probe EXCEPT
           !.applied = TRUE,
           !.out = determineTrickWinner(probe.cards, probe.leadColor, probe.trumpColor,
                       probe.rookRankMode)]
    /\ UNCHANGED <<state, result, dealt, frees, bidding, thrown, room, handState>>

ApplyScoreHand ==
    /\ probe.fn = "scoreHand" /\ ~probe.applied
    /\ probe' = [probe EXCEPT
           !.applied = TRUE,
           !.out = scoreHand(probe.capturedByTeam, probe.lastTrickTeam, probe.kittyCards,
                       probe.biddingTeam, probe.bidAmount)]
    /\ UNCHANGED <<state, result, dealt, frees, bidding, thrown, room, handState>>

InitEngine ==
    /\ probe \in LegalPlaysInputs \cup TrickWinnerInputs \cup ScoreHandInputs
    /\ state = Null
    /\ result = [ok |-> TRUE]
    /\ dealt = 0
    /\ frees = 0
    /\ bidding = Null
    /\ thrown = None
    /\ room = Null
    /\ handState = Null

NextEngine ==
    \/ ApplyGetLegalPlays
    \/ ApplyDetermineTrickWinner
    \/ ApplyScoreHand

SpecEngine == InitEngine /\ [][NextEngine]_vars

----------------------------------------------------------------------------
(* The game store: claims C1, C2 and C6, on Spec.                           *)

\* whether a hand has been dealt in the stored game
handDealt(s) == s # Null /\ s.phase \in {"bidding", "kitty", "declareTrump", "trick", "score", "gameOver"}

\* the trick buffer while the trick is in progress
inProgressTrick(s) ==
    IF Len(s.hand.trickCards) < 4
    THEN [i \in 1 .. Len(s.hand.trickCards) |-> s.hand.trickCards[i].card]
    ELSE <<>>

\* every card the state holds, location by location
cardLocations(s) ==
    s.hand.hands[0] \o s.hand.hands[1] \o s.hand.hands[2] \o s.hand.hands[3]
        \o s.hand.kitty \o s.hand.capturedByTeam["T1"] \o s.hand.capturedByTeam["T2"]
        \o inProgressTrick(s)

\* C1: in every state after dealHand each card of buildDeck(deckMode) is in
\* exactly one of the four hands, the kitty, the two captured piles and the
\* in-progress trick buffer (counted while it holds fewer than 4 cards); so
\* the sizes add up to 57 (full) or 45 (fast), at phase boundaries too.
C1_CardConservation ==
    handDealt(state) =>
        LET deck == buildDeck(state.hand.deckMode)
            held == cardLocations(state)
        IN /\ {cardId(held[i]) : i \in 1 .. Len(held)}
                  = {cardId(deck[i]) : i \in 1 .. Len(deck)}
           /\ Len(held) = Len(deck)
           /\ Cardinality({cardId(deck[i]) : i \in 1 .. Len(deck)}) = Len(deck)
           /\ Len(held) = IF state.hand.deckMode = "full" THEN 57 ELSE 45

\* the full deck in play, a trick half played, both teams holding captured cards
C1_Witness ==
    /\ handDealt(state)
    /\ state.hand.deckMode = "full"
    /\ state.phase = "trick"
    /\ Len(state.hand.trickCards) = 2
    /\ Len(state.hand.capturedByTeam["T1"]) > 0
    /\ Len(state.hand.capturedByTeam["T2"]) > 0

\* the positions in `hand` of the suited cards of the lead color
leadColorHeld(hand, leadColor) ==
    {i \in 1 .. Len(hand) : hand[i].kind = "suit" /\ hand[i].color = leadColor}

\* C2: when a lead color is set and the player to act holds a suited card of
\* it, getLegalPlays returns exactly the ids of the held suited cards of that
\* color, and playCard with any other card is refused with 'illegal play',
\* which stores nothing; when the player holds no suited card of the lead
\* color, every card of the hand is legal and playCard accepts it.
C2_FollowSuit ==
    (state # Null /\ state.phase = "trick" /\ state.hand.trump # None
        /\ effectiveLeadColor(state) # None) =>
        LET playerId == state.whoseTurnPlayerId
            hand == handToPlay(state)
            leadColor == effectiveLeadColor(state)
            held == leadColorHeld(hand, leadColor)
            legalPlays == getLegalPlays(hand, leadColor, state.hand.trump,
                              state.rookRankMode)
        IN IF held # {}
           THEN /\ Range(legalPlays) = {cardId(hand[i]) : i \in held}
                /\ Len(legalPlays) = Cardinality(held)
                /\ \A card \in Range(buildDeck("full")) :
                       IF cardId(card) \in {cardId(hand[i]) : i \in held}
                       THEN playCard(state, playerId, card).ok
                       ELSE playCard(state, playerId, card) = Err("illegal play")
           ELSE /\ legalPlays = Mapped(hand, cardId)
                /\ \A i \in 1 .. Len(hand) : playCard(state, playerId, hand[i]).ok

\* a player who holds the lead color and another card has just been refused
C2_Witness ==
    /\ state # Null /\ state.phase = "trick" /\ state.hand.trump # None
    /\ effectiveLeadColor(state) # None
    /\ leadColorHeld(handToPlay(state), effectiveLeadColor(state)) # {}
    /\ Cardinality(leadColorHeld(handToPlay(state), effectiveLeadColor(state)))
           < Len(handToPlay(state))
    /\ ~result.ok

\* C6: for every hand completed through playCard, with the full deck or the
\* fast one, handPoints[0] + handPoints[1] = 200.
C6_ScoreConservation ==
    state # Null =>
        /\ state.phase \in {"score", "gameOver"} => state.hand.handPoints # Null
        /\ state.hand.handPoints # Null =>
               state.hand.handPoints[0] + state.hand.handPoints[1] = 200

\* a completed hand of the fast deck with point cards left in the kitty
C6_Witness ==
    /\ state # Null
    /\ state.phase = "score"
    /\ state.hand.deckMode = "fast"
    /\ state.hand.handPoints # Null
    /\ sumPoints(state.hand.kitty) > 0

----------------------------------------------------------------------------
(* Bidding: claims C8, C9 and C10, on SpecBidding.                          *)

\* every action a caller can submit to applyBiddingAction
AllBiddingActions ==
    {BidAction(player, amount) : player \in Players, amount \in BidAmounts}
        \cup {PassAction(player) : player \in Players}
        \cup {PassPartnerAction(player) : player \in Players}

\* C8: in every reachable bidding state at most three players have passed,
\* bidding is complete exactly when three have, an accepted bid or
\* pass-partner never completes the bidding, and once the bidding is
\* complete every action is rejected and the state stays as it is.
C8_PassedAndComplete ==
    /\ countPassed(bidding.passed) <= 3
    /\ isBiddingComplete(bidding) <=> countPassed(bidding.passed) = 3
    /\ \A action \in AllBiddingActions :
           LET r == applyBiddingAction(bidding, action)
           IN /\ (r.ok /\ action.type \in {"bid", "passPartner"})
                     => ~isBiddingComplete(r.state)
              /\ isBiddingComplete(bidding)
                     => r = Thrown("Bidding is complete. No further actions allowed.")

\* a completed bidding with a pass-partner in it, after a further action was refused
C8_Witness ==
    /\ isBiddingComplete(bidding)
    /\ thrown = "Bidding is complete. No further actions allowed."
    /\ \E i \in 1 .. Len(bidding.history) : bidding.history[i].type = "passPartner"

\* whether some bid was accepted
hasBid(b) == \E i \in 1 .. Len(b.history) : b.history[i].type = "bid"

\* C9, as amended: getWinningBid is non-null exactly when the bidding is
\* complete and a bid was accepted; it is then the high bid, the last bid of
\* the history.  It is null while the bidding is incomplete, and null as
\* well when three players passed before anyone bid.
C9_WinningBidWhenCompleteWithBid ==
    /\ getWinningBid(bidding) # Null <=> (isBiddingComplete(bidding) /\ hasBid(bidding))
    /\ getWinningBid(bidding) # Null =>
           LET last == CHOOSE i \in 1 .. Len(bidding.history) :
                           /\ bidding.history[i].type = "bid"
                           /\ \A j \in (i + 1) .. Len(bidding.history) :
                                  bidding.history[j].type # "bid"
           IN /\ getWinningBid(bidding).amount = bidding.history[last].amount
              /\ getWinningBid(bidding).player = bidding.history[last].player

\* C9 as the specification states it: getWinningBid is non-null if and only
\* if the bidding is complete.
C9_WinningBidIffComplete ==
    getWinningBid(bidding) # Null <=> isBiddingComplete(bidding)

\* a completed bidding won at the maximum bid
C9_Witness ==
    /\ isBiddingComplete(bidding)
    /\ getWinningBid(bidding) # Null
    /\ getWinningBid(bidding).amount = DEFAULT_MAX_BID

\* what is left to do in a bidding: the bid levels above the high bid, the
\* pass-partners not used, the players who have not passed
BidMeasure(b) ==
    Cardinality({a \in b.minBid .. DEFAULT_MAX_BID :
                    /\ a % b.step = 0
                    /\ (b.highBid # Null => a > b.highBid.amount)})
        + Cardinality({t \in Teams : ~b.passPartnerUsed[t]})
        + Cardinality({p \in Players : ~b.passed[p]})

\* C10: every accepted action uses up something finite (a bid exceeds the
\* high bid on the step grid up to 200, a pass-partner uses the team's flag, a
\* pass marks a player who had not passed), so no sequence of accepted
\* actions is infinite; the bidding completes exactly on the third pass; and
\* while it is incomplete the current player has not passed and may pass.
C10_BiddingTerminates ==
    /\ [](~isBiddingComplete(bidding) =>
             /\ ~bidding.passed[bidding.currentPlayer]
             /\ applyBiddingAction(bidding, PassAction(bidding.currentPlayer)).ok)
    /\ [][bidding' # bidding =>
             LET a == bidding'.history[Len(bidding'.history)]
             IN /\ bidding'.history = Append(bidding.history, a)
                /\ BidMeasure(bidding') < BidMeasure(bidding)
                /\ BidMeasure(bidding') >= 0
                /\ a.type = "bid" =>
                       /\ a.amount % bidding.step = 0
                       /\ a.amount <= DEFAULT_MAX_BID
                       /\ bidding.highBid # Null => a.amount > bidding.highBid.amount
                /\ a.type = "passPartner" =>
                       /\ ~bidding.passPartnerUsed[teamOf(a.player)]
                       /\ bidding'.passPartnerUsed[teamOf(a.player)]
                /\ a.type = "pass" =>
                       /\ ~bidding.passed[a.player]
                       /\ bidding'.passed[a.player]
                /\ (isBiddingComplete(bidding') /\ ~isBiddingComplete(bidding)) <=>
                       (a.type = "pass" /\ countPassed(bidding.passed) = 2)]_vars

\* a bidding that ran through every bid level, a pass-partner and three passes
C10_Witness ==
    /\ isBiddingComplete(bidding)
    /\ \E t \in Teams : bidding.passPartnerUsed[t]
    /\ Len(bidding.history) >= 8

----------------------------------------------------------------------------
(* The engine's pure functions: claims C3, C4, C5 and C7, on SpecEngine.    *)

\* C3, as the specification and docs/RULES.md state it: the Rook is a card of
\* the trump suit for following suit.  When the led color is the trump color
\* a hand that holds the Rook may always play it, and a hand that holds the
\* Rook and no suited trump card may play nothing but the Rook.
C3_RookFollowsTrump ==
    (probe.fn = "getLegalPlays" /\ probe.applied
        /\ probe.leadColor = probe.trumpColor /\ Rook \in Range(probe.hand)) =>
        /\ cardId(Rook) \in Range(probe.out)
        /\ leadColorHeld(probe.hand, probe.trumpColor) = {}
               => Range(probe.out) = {cardId(Rook)}

\* whether the card is of the trump suit: a suited trump card or the Rook
isTrumpCard(card, trumpColor) == card.kind = "rook" \/ card.color = trumpColor

\* whether rank `a` is above rank `b` within a color: 1, then 14 down to 2
higherRank(a, b) == a # b /\ (a = 1 \/ (b # 1 /\ a > b))

\* whether card `a` is strictly better than card `b` in a trick
beats(a, b, leadColor, trumpColor, rookRankMode) ==
    IF isTrumpCard(a, trumpColor) /\ isTrumpCard(b, trumpColor)
    THEN IF a.kind = "rook" THEN b.kind # "rook" /\ rookRankMode = "rookHigh"
         ELSE IF b.kind = "rook" THEN rookRankMode = "rookLow"
         ELSE higherRank(a.rank, b.rank)
    ELSE IF isTrumpCard(a, trumpColor) THEN TRUE
    ELSE IF isTrumpCard(b, trumpColor) THEN FALSE
    ELSE LET aLeads == leadColor # None /\ a.color = leadColor
             bLeads == leadColor # None /\ b.color = leadColor
         IN IF aLeads /\ bLeads THEN higherRank(a.rank, b.rank)
            ELSE aLeads

\* whether the tuple x is lexicographically greater than y
lexGreater(x, y) ==
    \E k \in 1 .. Len(x) : x[k] > y[k] /\ \A j \in 1 .. (k - 1) : x[j] = y[j]

\* the (major, tier, rank) tuple of a card
scoreTuple(card, leadColor, trumpColor, rookRankMode) ==
    LET score == scoreCard(card, leadColor, trumpColor, rookRankMode)
    IN <<score.major, score.tier, score.rank>>

\* C4: determineTrickWinner returns the index of the first card whose
\* (major, tier, rank) tuple is lexicographically greatest; by the rules of
\* the game, no card of the trick beats the winner and the winner beats every
\* card played before it (trump or Rook over non-trump, lead color over
\* off-color, 1 then 14 down to 2 within a color, the Rook over suited trump
\* under rookHigh and under it with rookLow); the index is -1 for no cards.
C4_TrickWinner ==
    (probe.fn = "determineTrickWinner" /\ probe.applied) =>
        LET cards == probe.cards
            tuple(i) == scoreTuple(cards[i], probe.leadColor, probe.trumpColor,
                            probe.rookRankMode)
            better(i, j) == beats(cards[i], cards[j], probe.leadColor,
                                probe.trumpColor, probe.rookRankMode)
            winner == probe.out + 1
        IN /\ winner \in 1 .. Len(cards)
           /\ \A j \in 1 .. Len(cards) : ~lexGreater(tuple(j), tuple(winner))
           /\ \A j \in 1 .. (winner - 1) : lexGreater(tuple(winner), tuple(j))
           /\ \A j \in 1 .. Len(cards) : ~better(j, winner)
           /\ \A j \in 1 .. (winner - 1) : better(winner, j)
           /\ \A i, j \in 1 .. Len(cards) : better(i, j) <=> lexGreater(tuple(i), tuple(j))

\* a four-card trick with the Rook in it, rookLow, won by a suited trump card
C4_Witness ==
    /\ probe.fn = "determineTrickWinner" /\ probe.applied
    /\ Len(probe.cards) = 4
    /\ Rook \in Range(probe.cards)
    /\ probe.rookRankMode = "rookLow"
    /\ probe.cards[probe.out + 1].kind = "suit"
    /\ probe.cards[probe.out + 1].color = probe.trumpColor

\* C5: in scoreHand, a bidding team whose points are below the bid scores
\* exactly minus the bid whatever it captured, otherwise it scores its
\* points; the defending team scores its points in both cases.
C5_ContractResolution ==
    (probe.fn = "scoreHand" /\ probe.applied) =>
        LET biddingTeam == probe.biddingTeam
            defendingTeam == 1 - probe.biddingTeam
            points == probe.out.points
            scores == probe.out.scores
        IN /\ points[biddingTeam] < probe.bidAmount
                  => scores[biddingTeam] = 0 - probe.bidAmount
           /\ points[biddingTeam] >= probe.bidAmount
                  => scores[biddingTeam] = points[biddingTeam]
           /\ scores[defendingTeam] = points[defendingTeam]

\* a bidding team set although it captured points
C5_Witness ==
    /\ probe.fn = "scoreHand" /\ probe.applied
    /\ probe.out.points[probe.biddingTeam] > 0
    /\ probe.out.points[probe.biddingTeam] < probe.bidAmount
    /\ probe.out.scores[probe.biddingTeam] = 0 - probe.bidAmount

\* the point value of a card as the specification lists it
listedPoints(card) ==
    IF card.kind = "rook" THEN 20
    ELSE IF card.rank = 1 THEN 15
    ELSE IF card.rank = 5 THEN 5
    ELSE IF card.rank \in {10, 14} THEN 10
    ELSE 0

\* the listed points of a pile of cards
RECURSIVE listedSum(_)
listedSum(cards) ==
    IF cards = <<>> THEN 0 ELSE listedPoints(Head(cards)) + listedSum(Tail(cards))

\* C7: scoreHand gives the team that won the last trick, bidder or not, the
\* points of its captured cards plus the flat bonus of 20 plus the points of
\* the kitty's cards; the other team gets the points of its captured cards
\* (rank 1 = 15, rank 5 = 5, ranks 10 and 14 = 10, the Rook = 20, others 0).
C7_LastTrickBonusAndKitty ==
    (probe.fn = "scoreHand" /\ probe.applied) =>
        LET last == probe.lastTrickTeam
            other == 1 - probe.lastTrickTeam
        IN /\ probe.out.points[last] =
                  listedSum(probe.capturedByTeam[last]) + 20 + listedSum(probe.kittyCards)
           /\ probe.out.points[other] = listedSum(probe.capturedByTeam[other])

\* the defending team won the last trick and with it a kitty holding the Rook
C7_Witness ==
    /\ probe.fn = "scoreHand" /\ probe.applied
    /\ probe.lastTrickTeam # probe.biddingTeam
    /\ Rook \in Range(probe.kittyCards)
    /\ probe.out.points[probe.lastTrickTeam] > listedSum(probe.capturedByTeam[probe.lastTrickTeam]) + 20

----------------------------------------------------------------------------
(* The auction: claims C11, C13 and C14 on Spec, C12 on SpecBidding.       *)

\* the bidding index of the caller, NoIndex when the caller holds no seat
callerIndex(s, playerId) == IndexOf(s.playerOrder, playerId)

\* the first player after `from` in seat order, wrapping, who has not passed
nextInSeatOrder(passed, from) ==
    (from + (CHOOSE k \in 1 .. 4 :
                 /\ ~passed[(from + k) % 4]
                 /\ \A j \in 1 .. (k - 1) : passed[(from + j) % 4])) % 4

\* every amount a caller submits
AllBidAmounts == GameBidAmounts \cup BidAmounts

\* whether the bidding `b` takes the bid `amount` of the player `p`
bidAcceptable(b, p, amount) ==
    /\ p # NoIndex
    /\ p = b.currentPlayer
    /\ ~b.passed[p]
    /\ amount >= b.minBid
    /\ amount <= 200
    /\ amount % b.step = 0
    /\ b.highBid # Null => amount > b.highBid.amount

\* C11: a bid is accepted exactly when it comes from the current, non-passed
\* player and its amount is >= minBid, <= 200, a multiple of step and above
\* the high bid, if any; an accepted bid sets highBid to {player, amount},
\* appends one history entry and gives the turn to the next non-passed player
\* in seat order; applyAction reports a rejected bid as {ok: false}, and a
\* rejected call leaves the stored state, the bidding with it, as it was.
C11_BidAcceptance ==
    /\ []((state # Null /\ state.phase = "bidding") =>
            \A playerId \in PlayerIds, amount \in AllBidAmounts :
                LET b == state.bidding
                    p == callerIndex(state, playerId)
                    r == applyAction(state, playerId, [type |-> "bid", amount |-> amount])
                IN /\ r.ok \in BOOLEAN
                   /\ r.ok <=> bidAcceptable(b, p, amount)
                   /\ r.ok =>
                          /\ r.value.bidding =
                                 [b EXCEPT
                                     !.highBid = [player |-> p, amount |-> amount],
                                     !.history = Append(b.history, BidAction(p, amount)),
                                     !.currentPlayer = nextInSeatOrder(b.passed, p)]
                          /\ r.value.phase = "bidding"
                          /\ r.value.whoseTurnSeat
                                 = state.seatOrder[nextInSeatOrder(b.passed, p)]
                          /\ r.value.hand = state.hand)
    /\ [][~result'.ok => state' = state]_vars

\* a bid that does not exceed the high bid has just been refused
C11_Witness ==
    /\ state # Null /\ state.phase = "bidding"
    /\ state.bidding.highBid # Null
    /\ state.bidding.history[Len(state.bidding.history)].type = "bid"
    /\ ~result.ok
    /\ ~applyAction(state, state.whoseTurnPlayerId,
            [type |-> "bid", amount |-> state.bidding.highBid.amount]).ok

\* the history positions of the pass-partners of the team `t`
passPartnersOf(b, t) ==
    {i \in 1 .. Len(b.history) :
        b.history[i].type = "passPartner" /\ b.history[i].player % 2 = t}

\* C12, on SpecBidding: passPartner is accepted exactly when the current,
\* non-passed player submits it, a high bid exists, the player at seat index
\* + 2 mod 4 holds it and the player's team has not used pass-partner; the
\* accepted pass-partner sets the team's flag, appends one history entry and
\* gives the turn to the next non-passed player, with passed[] and highBid
\* as they were, so the player may bid or pass later; the history of an
\* auction holds at most one pass-partner per team.
C12_PassPartner ==
    /\ \A player \in Players :
           LET r == applyBiddingAction(bidding, PassPartnerAction(player))
           IN /\ r.ok <=>
                     /\ ~isBiddingComplete(bidding)
                     /\ player = bidding.currentPlayer
                     /\ ~bidding.passed[player]
                     /\ bidding.highBid # Null
                     /\ bidding.highBid.player = (player + 2) % 4
                     /\ ~bidding.passPartnerUsed[player % 2]
              /\ r.ok =>
                     /\ r.state =
                            [bidding EXCEPT
                                !.passPartnerUsed[player % 2] = TRUE,
                                !.history = Append(bidding.history,
                                                PassPartnerAction(player)),
                                !.currentPlayer = nextInSeatOrder(bidding.passed, player)]
                     /\ ~r.state.passed[player]
                     /\ applyBiddingAction([r.state EXCEPT !.currentPlayer = player],
                            PassAction(player)).ok
    /\ \A t \in Teams :
           /\ Cardinality(passPartnersOf(bidding, t)) <= 1
           /\ bidding.passPartnerUsed[t] <=> passPartnersOf(bidding, t) # {}

\* a player who passed partner bid later in the auction, and the second
\* pass-partner of that team has just been refused
C12_Witness ==
    /\ thrown = "PassPartner has already been used by this team."
    /\ \E i \in 1 .. Len(bidding.history), j \in 1 .. Len(bidding.history) :
           /\ i < j
           /\ bidding.history[i].type = "passPartner"
           /\ bidding.history[j].type = "bid"
           /\ bidding.history[j].player = bidding.history[i].player

\* accepted actions followed from a reachable state of the auction
MaxAuctionSteps == 2

\* the states of the auction reached from the states S by at most n accepted
\* actions of the player to act
RECURSIVE auctionRuns(_, _)
auctionRuns(S, n) ==
    IF n = 0 THEN S
    ELSE S \cup auctionRuns(
             {applyAction(s, s.playerOrder[s.bidding.currentPlayer], a).value :
                  <<s, a>> \in
                      {x \in {s \in S : s.phase = "bidding"}
                                \X ({[type |-> "pass"], [type |-> "passPartner"]}
                                      \cup {[type |-> "bid", amount |-> n2] :
                                                n2 \in AllBidAmounts}) :
                          applyAction(x[1], x[1].playerOrder[x[1].bidding.currentPlayer],
                              x[2]).ok}},
             n - 1)

\* the history positions of the accepted bids
bidsOf(b) == {i \in 1 .. Len(b.history) : b.history[i].type = "bid"}

\* whether the game state `s` resolves its auction as C13 states
winnerResolved(s) ==
    LET b == s.bidding
        bids == bidsOf(b)
        over == s.phase \in {"kitty", "declareTrump", "trick", "score", "gameOver"}
        dealerBid == [player |-> s.dealerIndex, amount |-> 100]
    IN /\ \A i \in bids, j \in bids :
              i < j => b.history[i].amount < b.history[j].amount
       /\ bids # {} =>
              LET last == CHOOSE i \in bids : \A j \in bids : j <= i
                  lastBid == [player |-> b.history[last].player,
                              amount |-> b.history[last].amount]
              IN /\ b.highBid = lastBid
                 /\ \A j \in bids : b.history[j].amount <= lastBid.amount
                 /\ over => /\ s.hand.winningBid = lastBid
                            /\ s.hand.bidder = lastBid.player
       /\ (~over /\ bids = {}) => b.highBid = Null
       /\ over <=> (s.phase # "preDeal" /\ countPassed(b.passed) = 3)
       /\ (over /\ bids = {}) =>
              /\ \A i \in 1 .. Len(b.history) : b.history[i].type = "pass"
              /\ s.hand.winningBid = dealerBid
              /\ b.highBid = dealerBid
              /\ s.hand.bidder = s.dealerIndex
              /\ s.phase \in {"kitty", "declareTrump"} =>
                     s.whoseTurnSeat = s.seatOrder[s.dealerIndex]
       /\ (over /\ s.phase \in {"kitty", "declareTrump"}) =>
              s.whoseTurnSeat = s.seatOrder[s.hand.bidder]

\* C13: highBid.amount strictly increases with every accepted bid; when the
\* bidding completes after at least one bid, hand.winningBid and hand.bidder
\* are the last accepted bid, the maximum of the history, and its player,
\* with no dealer fallback; when it completes with no bid placed,
\* hand.winningBid and bidding.highBid are {dealer, 100}, hand.bidder is the
\* dealer and it is the dealer's turn.
C13_WinnerResolution ==
    (state # Null /\ state.phase # "preDeal") =>
        \A s \in auctionRuns({state}, MaxAuctionSteps) : winnerResolved(s)

\* a bidding won with a bid, and one that fell back on the dealer, both
\* two accepted actions away
C13_Witness ==
    /\ state # Null /\ state.phase = "bidding"
    /\ bidsOf(state.bidding) # {}
    /\ countPassed(state.bidding.passed) = 1
    /\ \E s \in auctionRuns({state}, MaxAuctionSteps) :
           /\ s.phase = "kitty"
           /\ s.hand.winningBid = state.bidding.highBid
           /\ s.hand.bidder # s.dealerIndex

\* the cards dealt to each player
handSize(s) == IF s.hand.deckMode = "full" THEN 13 ELSE 10

\* every action the player to act submits in the auction
AuctionActions ==
    {[type |-> "pass"], [type |-> "passPartner"]}
        \cup {[type |-> "bid", amount |-> amount] : amount \in AllBidAmounts}

\* C14: in the transition in which the bidding completes, with a bid or with
\* the dealer fallback, phase becomes kitty, the 5 kitty cards are appended
\* to the winning bidder's hand (13 to 18 cards with the full deck, 10 to 15
\* with the fast one), the kitty becomes empty, kittyPickedUp becomes true
\* and the three other hands stay as they were; after a successful
\* discardKitty of any 5 cards the bidder's hand has 13 (10) cards again.
C14_AutomaticKittyPickup ==
    /\ (state # Null /\ state.phase = "bidding") =>
           /\ ~state.hand.kittyPickedUp
           /\ Len(state.hand.kitty) = 5
           /\ \A p \in Players : Len(state.hand.hands[p]) = handSize(state)
           /\ \A action \in AuctionActions :
                  LET r == applyAction(state,
                               state.playerOrder[state.bidding.currentPlayer], action)
                  IN r.ok =>
                         LET next == r.value
                             bidder == next.hand.bidder
                         IN IF isBiddingComplete(next.bidding)
                            THEN /\ next.phase = "kitty"
                                 /\ next.hand.phase = "kitty"
                                 /\ bidder = next.hand.winningBid.player
                                 /\ next.hand.hands[bidder]
                                        = state.hand.hands[bidder] \o state.hand.kitty
                                 /\ Len(next.hand.hands[bidder]) = handSize(state) + 5
                                 /\ next.hand.kitty = <<>>
                                 /\ next.hand.kittyPickedUp
                                 /\ \A p \in Players \ {bidder} :
                                        next.hand.hands[p] = state.hand.hands[p]
                            ELSE /\ next.phase = "bidding"
                                 /\ next.hand = state.hand
    /\ (state # Null /\ state.phase = "kitty") =>
           /\ state.hand.kittyPickedUp
           /\ state.hand.kitty = <<>>
           /\ Len(state.hand.hands[state.hand.bidder]) = handSize(state) + 5
           /\ \A in \in DiscardInputs(state) :
                  LET r == discardKitty(state, in.playerId, in.cards)
                  IN r.ok =>
                         /\ Len(in.cards) = 5
                         /\ Len(r.value.hand.hands[state.hand.bidder]) = handSize(state)
                         /\ Len(r.value.hand.kitty) = 5
    /\ (state # Null /\ state.phase = "declareTrump") =>
           Len(state.hand.hands[state.hand.bidder]) = handSize(state)

\* the bidding has just completed on a bid, with the full deck: the bidder holds 18 cards
C14_Witness ==
    /\ state # Null /\ state.phase = "kitty"
    /\ result.ok
    /\ state.hand.deckMode = "full"
    /\ bidsOf(state.bidding) # {}
    /\ Len(state.hand.hands[state.hand.bidder]) = 18
    /\ state.hand.kitty = <<>>

----------------------------------------------------------------------------
(* The kitty and the trump: claims C15 and C16, on Spec.                    *)

\* whether the cards `cards` are a sub-multiset of `hand`
subMultiset(cards, hand) ==
    \A i \in 1 .. Len(cards) :
        Cardinality({k \in 1 .. Len(cards) : cards[k] = cards[i]})
            <= Cardinality({k \in 1 .. Len(hand) : hand[k] = cards[i]})

\* C15: discardKitty of the bidder succeeds exactly when 5 cards are given
\* and they are a sub-multiset of the bidder's hand (a card named twice, or a
\* card not held, is rejected); on success exactly those cards leave the
\* bidder's hand and become the kitty, the other hands are unchanged and
\* phase becomes declareTrump; a request of another size is rejected with
\* 'discard must match kitty size', one that is not held with 'discard cards
\* missing from hand', and a rejected call leaves the state, still in phase
\* kitty, as it was.
C15_DiscardKitty ==
    /\ []((state # Null /\ state.phase = "kitty") =>
            LET bidder == state.hand.bidder
                hand == state.hand.hands[bidder]
            IN \A in \in DiscardInputs(state) :
                   LET r == discardKitty(state, in.playerId, in.cards)
                       cards == in.cards
                   IN in.playerId = state.playerOrder[bidder] =>
                          /\ r.ok <=> (Len(cards) = 5 /\ subMultiset(cards, hand))
                          /\ Len(cards) # 5 => r = Err("discard must match kitty size")
                          /\ (Len(cards) = 5 /\ ~subMultiset(cards, hand))
                                 => r = Err("discard cards missing from hand")
                          /\ r.ok =>
                                 LET next == r.value.hand.hands[bidder]
                                 IN /\ r.value.hand.kitty = cards
                                    /\ Len(next) = Len(hand) - 5
                                    /\ \A c \in Range(hand) :
                                           Cardinality({k \in 1 .. Len(next) : next[k] = c})
                                               = Cardinality({k \in 1 .. Len(hand) :
                                                                 hand[k] = c})
                                                   - Cardinality({k \in 1 .. Len(cards) :
                                                                     cards[k] = c})
                                    /\ \A p \in Players \ {bidder} :
                                           r.value.hand.hands[p] = state.hand.hands[p]
                                    /\ r.value.phase = "declareTrump"
                                    /\ r.value.hand.phase = "declareTrump")
    /\ [][(state # Null /\ state.phase = "kitty" /\ ~result'.ok) => state' = state]_vars

\* after the dealer fallback a discard with a point card in it was accepted
C15_Witness ==
    /\ state # Null /\ state.phase = "declareTrump"
    /\ result.ok
    /\ Len(state.hand.kitty) = 5
    /\ state.hand.pointsNoticeSent
    /\ state.bidding.history[Len(state.bidding.history)].type = "pass"
    /\ bidsOf(state.bidding) = {}

\* the discards submitted in the kitty phase, whoever submits them
discardsSubmitted(s) == {in.cards : in \in DiscardInputs(s)}

\* C16: in phase kitty a discardKitty, and in phase declareTrump a
\* declareTrump, of any player other than the one bound to the bidder's seat
\* fails with 'only the bidder may act', and the other of the two calls
\* fails for every player; a failed call changes nothing.  declareTrump of
\* the bidder in phase declareTrump sets trump and moves to phase trick with
\* an empty trick buffer and no lead color, the bidder to lead.
C16_OnlyTheBidderActs ==
    /\ []((state # Null /\ state.phase = "kitty") =>
            /\ state.hand.bidder \in Players
            /\ \A playerId \in PlayerIds :
                   /\ \A trump \in Colors : ~declareTrump(state, playerId, trump).ok
                   /\ playerId # state.playerOrder[state.hand.bidder] =>
                          \A cards \in discardsSubmitted(state) :
                              discardKitty(state, playerId, cards)
                                  = Err("only the bidder may act"))
    /\ []((state # Null /\ state.phase = "declareTrump") =>
            /\ state.hand.bidder \in Players
            /\ \A playerId \in PlayerIds, trump \in Colors :
                   LET r == declareTrump(state, playerId, trump)
                   IN /\ ~discardKitty(state, playerId, state.hand.kitty).ok
                      /\ IF playerId # state.playerOrder[state.hand.bidder]
                         THEN r = Err("only the bidder may act")
                         ELSE /\ r.ok
                              /\ r.value.hand.trump = trump
                              /\ r.value.phase = "trick"
                              /\ r.value.hand.phase = "trick"
                              /\ r.value.hand.trickCards = <<>>
                              /\ r.value.hand.trickLeadColor = None
                              /\ r.value.whoseTurnSeat
                                     = state.seatOrder[state.hand.bidder]
                              /\ r.value.whoseTurnPlayerId = playerId
                              /\ r.value.hand.hands = state.hand.hands)
    /\ [][(state # Null /\ state.phase \in {"kitty", "declareTrump"} /\ ~result'.ok)
              => state' = state]_vars

\* the bidder has just declared red as the trump and has the lead
C16_Witness ==
    /\ state # Null /\ state.phase = "trick"
    /\ result.ok
    /\ state.hand.trump = "red"
    /\ state.hand.trickCards = <<>>
    /\ state.hand.trickLeadColor = None
    /\ state.hand.capturedByTeam["T1"] = <<>>
    /\ state.hand.capturedByTeam["T2"] = <<>>
    /\ state.whoseTurnSeat = state.seatOrder[state.hand.bidder]

----------------------------------------------------------------------------
(* The tricks: claims C17 to C20, on Spec.                                  *)

\* the cards submitted to playCard in the state `s`: the cards of the hand
\* playCard reads, of the hand at the seat to play, and the Rook
cardsSubmitted(s) ==
    Range(handToPlay(s)) \cup Range(s.hand.hands[turnIndex(s)]) \cup {Rook}

\* whether a play accepted in the state `s` completes the trick
completesTrick(s) == Len(s.hand.trickCards) = 3

\* C17, as the specification states it: playCard is accepted only from the
\* player bound to whoseTurnSeat; of two different players who submit
\* playCard against the same state at most one is accepted and the other is
\* rejected with 'not your turn'; after an accepted play that does not
\* complete a trick the turn is at the next seat in seat order.  The last
\* part fails once rebindSeat has bound one player to two seats: playCard
\* finds the player's first seat, plays from that hand and counts the turn
\* on from there.
C17_TurnGating ==
    (state # Null /\ state.phase = "trick" /\ state.hand.trump # None) =>
        /\ state.whoseTurnPlayerId = state.playerOrder[turnIndex(state)]
        /\ \A playerId \in PlayerIds, card \in cardsSubmitted(state) :
               LET r == playCard(state, playerId, card)
               IN /\ r.ok => playerId = state.playerOrder[turnIndex(state)]
                  /\ playerId # state.playerOrder[turnIndex(state)]
                         => r = Err("not your turn")
                  /\ (r.ok /\ ~completesTrick(state)) =>
                         r.value.whoseTurnSeat
                             = state.seatOrder[(turnIndex(state) + 1) % 4]

\* the state and, when the player to lead holds the Rook, the state after
\* the Rook is led
withRookLed(s) ==
    {s} \cup {playCard(s, s.whoseTurnPlayerId, Rook).value :
                 x \in {y \in {s} : /\ Len(y.hand.trickCards) \in {0, 4}
                                    /\ playCard(y, y.whoseTurnPlayerId, Rook).ok}}

\* whether the trick in progress in `s` was led with the Rook
rookLed(s) ==
    /\ s.phase = "trick"
    /\ Len(s.hand.trickCards) \in 1 .. 3
    /\ s.hand.trickCards[1].card = Rook

\* the positions in `hand` of the suited cards of the color `color`
suitedOf(hand, color) ==
    {i \in 1 .. Len(hand) : hand[i].kind = "suit" /\ hand[i].color = color}

\* C18: when the Rook is the first card of a trick, the trick's lead color is
\* the trump color: a following player whose hand holds a suited card of the
\* trump color may play the trump-color cards of the hand and nothing else,
\* every other card being rejected with 'illegal play'.
C18_RookLeadIsTrumpLead ==
    (state # Null /\ state.phase = "trick" /\ state.hand.trump # None) =>
        \A s \in withRookLed(state) :
            rookLed(s) =>
                /\ s.hand.trickLeadColor = s.hand.trump
                /\ LET hand == handToPlay(s)
                       trumps == suitedOf(hand, s.hand.trump)
                   IN trumps # {} =>
                          \A card \in Range(buildDeck("full")) :
                              LET r == playCard(s, s.whoseTurnPlayerId, card)
                              IN IF \E i \in trumps : hand[i] = card
                                 THEN r.ok /\ r.value.hand.trickLeadColor = s.hand.trump
                                 ELSE r = Err("illegal play")

\* the Rook was led and the next player, who holds trump and another color,
\* has just been refused
C18_Witness ==
    /\ state # Null /\ rookLed(state)
    /\ Len(state.hand.trickCards) = 1
    /\ state.hand.trickLeadColor = state.hand.trump
    /\ suitedOf(handToPlay(state), state.hand.trump) # {}
    /\ \E i \in 1 .. Len(handToPlay(state)) :
           handToPlay(state)[i].kind = "suit"
               /\ handToPlay(state)[i].color # state.hand.trump
    /\ ~result.ok

\* the seats bound to the player `playerId`
seatsOf(s, playerId) == {i \in Players : s.playerOrder[i] = playerId}

\* C19: the 4th card of a trick leaves all 4 plays and the lead color in
\* trickCards; they stay until the next accepted play, the trick winner's;
\* that play is validated with no lead color, so every card of the winner's
\* hand is legal, and it leaves exactly 1 entry, the winner's; a rejected
\* play does not clear the buffer; trickCards never holds more than 4
\* entries.
C19_CompletedTrickStaysVisible ==
    /\ [](state # Null => Len(state.hand.trickCards) <= 4)
    /\ []((state # Null /\ state.phase = "trick" /\ state.hand.trump # None) =>
            LET buffer == state.hand.trickCards
                hand == handToPlay(state)
            IN \A playerId \in PlayerIds, card \in cardsSubmitted(state) :
                   LET r == playCard(state, playerId, card)
                   IN /\ (r.ok /\ Len(buffer) = 3) =>
                             /\ Len(r.value.hand.trickCards) = 4
                             /\ SubSeq(r.value.hand.trickCards, 1, 3) = buffer
                             /\ r.value.hand.trickCards[4].card = card
                             /\ r.value.hand.trickLeadColor = state.hand.trickLeadColor
                             /\ r.value.hand.trickLeadColor \in Colors
                      /\ Len(buffer) = 4 =>
                             /\ state.hand.trickLeadColor \in Colors
                             /\ effectiveLeadColor(state) = None
                             /\ playerId = state.whoseTurnPlayerId =>
                                    (r.ok <=> card \in Range(hand))
                             /\ r.ok =>
                                    /\ playerId = state.whoseTurnPlayerId
                                    /\ Len(r.value.hand.trickCards) = 1
                                    /\ r.value.hand.trickCards[1].card = card
                                    /\ r.value.hand.trickCards[1].seat
                                           \in {state.seatOrder[i] :
                                                   i \in seatsOf(state, playerId)}
                                    /\ seatsOf(state, playerId) = {turnIndex(state)} =>
                                           r.value.hand.trickCards[1].seat
                                               = state.whoseTurnSeat)
    /\ [][(state # Null /\ state.phase = "trick" /\ Len(state.hand.trickCards) = 4
              /\ state'.phase # "preDeal") =>
             \/ /\ state'.hand.trickCards = state.hand.trickCards
                /\ state'.hand.trickLeadColor = state.hand.trickLeadColor
                /\ state'.whoseTurnSeat = state.whoseTurnSeat
             \/ /\ result'.ok
                /\ Len(state'.hand.trickCards) = 1
                /\ state'.hand.capturedByTeam = state.hand.capturedByTeam]_vars
    /\ [][(state # Null /\ state.phase = "trick" /\ ~result'.ok) => state' = state]_vars

\* the winner of a completed trick has just led the next one
C19_Witness ==
    /\ state # Null /\ state.phase = "trick"
    /\ result.ok
    /\ Len(state.hand.trickCards) = 1
    /\ Len(state.hand.capturedByTeam["T1"]) + Len(state.hand.capturedByTeam["T2"]) >= 4
    /\ state.hand.undoState # Null
    /\ Len(state.hand.undoState.hand.trickCards) = 4

\* the team of a seat, read from the seat's name
seatTeam(seat) == IF seat \in {"T1P1", "T1P2"} THEN "T1" ELSE "T2"

\* C20: on the 4th play of a trick the winner is determineTrickWinner of the
\* 4 cards in play order with the trick's lead color, the trump and
\* rookRankMode; exactly those 4 cards are appended to the captured pile of
\* the winning seat's team and the other pile is unchanged,
\* lastTrickWinnerTeam becomes that team and the turn passes to the winning
\* seat; plays 1 to 3 of a trick change neither pile nor lastTrickWinnerTeam.
C20_TrickCapture ==
    (state # Null /\ state.phase = "trick" /\ state.hand.trump # None) =>
        \A card \in cardsSubmitted(state) :
            LET r == playCard(state, state.whoseTurnPlayerId, card)
                buffer == state.hand.trickCards
            IN r.ok =>
                   IF Len(buffer) = 3
                   THEN LET played == r.value.hand.trickCards
                            cards == <<buffer[1].card, buffer[2].card, buffer[3].card, card>>
                            winner == determineTrickWinner(cards, state.hand.trickLeadColor,
                                          state.hand.trump, state.rookRankMode)
                            winnerSeat == played[winner + 1].seat
                            team == seatTeam(winnerSeat)
                            other == IF team = "T1" THEN "T2" ELSE "T1"
                        IN /\ winner \in 0 .. 3
                           /\ [i \in 1 .. 4 |-> played[i].card] = cards
                           /\ r.value.hand.capturedByTeam[team]
                                  = state.hand.capturedByTeam[team] \o cards
                           /\ r.value.hand.capturedByTeam[other]
                                  = state.hand.capturedByTeam[other]
                           /\ r.value.hand.lastTrickWinnerTeam = team
                           /\ r.value.whoseTurnSeat = winnerSeat
                           /\ r.value.whoseTurnPlayerId
                                  = state.playerOrder[IndexOf(state.seatOrder, winnerSeat)]
                   ELSE /\ r.value.hand.capturedByTeam = state.hand.capturedByTeam
                        /\ r.value.hand.lastTrickWinnerTeam = state.hand.lastTrickWinnerTeam

\* a trick has just been completed and won for the second team by a player
\* who did not lead it
C20_Witness ==
    /\ state # Null /\ state.phase = "trick"
    /\ result.ok
    /\ Len(state.hand.trickCards) = 4
    /\ state.hand.lastTrickWinnerTeam = "T2"
    /\ Len(state.hand.capturedByTeam["T2"]) >= 4
    /\ state.whoseTurnSeat # state.hand.trickCards[1].seat
    /\ seatTeam(state.whoseTurnSeat) = "T2"

----------------------------------------------------------------------------
(* Scoring and the end of the game: claims C21 and C22, on Spec.            *)

\* whether the hand of the game state `s` has been scored
handScored(s) == s.hand.handPoints # Null

\* C21: a hand is scored exactly when an accepted play completes a trick and
\* leaves all four hands empty: the cumulative scores become the old scores
\* plus scoreHand(captured piles, last-trick team, kitty after the discard,
\* bidder's team, winning bid amount).scores, handPoints and handScores are
\* that result and biddersSet tells whether the bidding team's points are
\* below the bid; no other transition changes the cumulative scores.
C21_HandScoring ==
    /\ []((state # Null /\ state.phase = "trick" /\ state.hand.trump # None) =>
            /\ ~handScored(state)
            /\ state.hand.handScores = Null /\ state.hand.biddersSet = Null
            /\ \A card \in cardsSubmitted(state) :
                   LET r == playCard(state, state.whoseTurnPlayerId, card)
                       next == r.value
                       lastCard == /\ Len(state.hand.trickCards) = 3
                                   /\ \A p \in Players : next.hand.hands[p] = <<>>
                       biddingTeam == state.hand.bidder % 2
                       bid == state.hand.winningBid.amount
                       scored == scoreHand(
                                     [t \in Teams |->
                                         next.hand.capturedByTeam[IF t = 0 THEN "T1" ELSE "T2"]],
                                     IF next.hand.lastTrickWinnerTeam = "T1" THEN 0 ELSE 1,
                                     state.hand.kitty, biddingTeam, bid)
                   IN r.ok =>
                          IF lastCard
                          THEN /\ next.scores = [t \in Teams |->
                                                    state.scores[t] + scored.scores[t]]
                               /\ next.hand.handPoints = scored.points
                               /\ next.hand.handScores = scored.scores
                               /\ next.hand.biddersSet = (scored.points[biddingTeam] < bid)
                               /\ next.phase \in {"score", "gameOver"}
                          ELSE /\ next.scores = state.scores
                               /\ next.hand.handPoints = Null
                               /\ next.hand.handScores = Null
                               /\ next.hand.biddersSet = Null
                               /\ next.phase = "trick")
    /\ []((state # Null /\ state.phase \in {"score", "gameOver"}) => handScored(state))
    /\ [][(state # Null /\ state'.scores # state.scores) =>
             \/ /\ state.phase = "trick" /\ result'.ok
                /\ state'.phase \in {"score", "gameOver"}
                /\ ~handScored(state) /\ handScored(state')
             \/ /\ state'.phase = "preDeal"
                /\ state'.scores = [t \in Teams |-> 0]]_vars

\* a hand has just been scored and the bidding team is set
C21_Witness ==
    /\ state # Null /\ state.phase \in {"score", "gameOver"}
    /\ result.ok
    /\ handScored(state)
    /\ state.hand.biddersSet = TRUE
    /\ state.scores[state.hand.bidder % 2] < 0

\* the state with the seat binding of the state `t`
withBindingOf(s, t) ==
    [s EXCEPT !.playerOrder = t.playerOrder, !.whoseTurnPlayerId = t.whoseTurnPlayerId]

\* C22: after a hand is scored the phase is gameOver if a team's cumulative
\* score is >= targetScore and score otherwise; winnerTeam is non-null
\* exactly in phase gameOver; in phase gameOver no dealHand, bid, pass,
\* passPartner, pickupKitty, discardKitty, declareTrump, playCard, undoPlay
\* or nextHand succeeds or changes the state, and getState returns the
\* final state.
C22_GameEnd ==
    /\ [](state # Null =>
            /\ state.targetScore > 0
            /\ state.phase \in {"score", "gameOver"} =>
                   (state.phase = "gameOver"
                        <=> \E t \in Teams : state.scores[t] >= state.targetScore)
            /\ state.winnerTeam # NoIndex <=> state.phase = "gameOver"
            /\ state.winnerTeam # NoIndex =>
                   state.scores[state.winnerTeam] >= state.targetScore
            /\ state.phase = "gameOver" =>
                   /\ getState(state) = state
                   /\ nextHand(state) = Err("game complete")
                   /\ \A playerId \in PlayerIds :
                          /\ \A mode \in {None, "rookHigh", "rookLow"} :
                                 ~dealHand(state, playerId, mode, 0).ok
                          /\ \A action \in AuctionActions :
                                 ~applyAction(state, playerId, action).ok
                          /\ ~pickupKitty(state, playerId).ok
                          /\ ~discardKitty(state, playerId, state.hand.kitty).ok
                          /\ \A trump \in Colors : ~declareTrump(state, playerId, trump).ok
                          /\ \A card \in Range(buildDeck("full")) :
                                 ~playCard(state, playerId, card).ok
                          /\ ~undoPlay(state, playerId).ok)
    /\ [][(state # Null /\ state.phase = "gameOver") =>
             \/ withBindingOf(state', state) = state
             \/ state'.phase = "preDeal" /\ state'.scores = [t \in Teams |-> 0]]_vars

\* the game is over, won by the second team, and a call has just been refused
C22_Witness ==
    /\ state # Null /\ state.phase = "gameOver"
    /\ state.winnerTeam = 1
    /\ state.scores[1] >= state.targetScore
    /\ ~result.ok

----------------------------------------------------------------------------
(* The take-back: claims C23 to C25, on Spec.                               *)

\* the state `s` with an empty undo slot
slotEmptied(s) ==
    [s EXCEPT !.hand = [s.hand EXCEPT !.undoAvailableForPlayerId = None,
                                      !.undoState = Null]]

\* whether the undo slot of the state `s` is empty
slotEmpty(s) == s.hand.undoAvailableForPlayerId = None /\ s.hand.undoState = Null

\* C23: after an accepted play of the player p that does not complete a
\* trick, an immediate undoPlay of p succeeds and yields the state before the
\* play in every field, with an empty undo slot; after a play that completes
\* a trick undoPlay of any player fails, and a failed undoPlay changes
\* nothing.
C23_UndoBoundary ==
    /\ []((state # Null /\ state.phase = "trick" /\ state.hand.trump # None) =>
            \A card \in cardsSubmitted(state) :
                LET p == state.whoseTurnPlayerId
                    r == playCard(state, p, card)
                IN r.ok =>
                       IF Len(state.hand.trickCards) # 3
                       THEN /\ undoPlay(r.value, p).ok
                            /\ undoPlay(r.value, p).value = slotEmptied(state)
                            /\ slotEmpty(undoPlay(r.value, p).value)
                            /\ r.value # state
                       ELSE \A playerId \in PlayerIds : ~undoPlay(r.value, playerId).ok)
    /\ [][(state # Null /\ state.phase = "trick" /\ Len(state.hand.trickCards) = 4
              /\ ~result'.ok) => state' = state]_vars

\* a play in the middle of a trick has just been taken back
C23_Witness ==
    /\ state # Null /\ state.phase = "trick"
    /\ result.ok
    /\ Len(state.hand.trickCards) \in 1 .. 3
    /\ slotEmpty(state)

\* C24: only the player who made the most recent accepted play can undo it,
\* undoPlay of anyone else failing with 'only the last player may undo' or
\* 'no undo available'; an undo takes back the most recent accepted play and
\* nothing earlier; two consecutive undoPlay calls never both succeed; an
\* undo never removes cards from a captured pile or reopens a completed
\* trick.
C24_SingleDepthUndo ==
    state # Null =>
        /\ state.hand.undoState # Null =>
               /\ slotEmpty(state.hand.undoState)
               /\ state.hand.undoAvailableForPlayerId # None
        /\ \A playerId \in PlayerIds :
               LET u == undoPlay(state, playerId)
               IN /\ playerId # state.hand.undoAvailableForPlayerId =>
                         u = IF slotEmpty(state) THEN Err("no undo available")
                             ELSE Err("only the last player may undo")
                  /\ u.ok =>
                         /\ slotEmpty(u.value)
                         /\ \A again \in PlayerIds :
                                undoPlay(u.value, again) = Err("no undo available")
                         /\ u.value.hand.capturedByTeam = state.hand.capturedByTeam
                         /\ u.value.scores = state.scores
                         /\ Len(state.hand.trickCards) \in 1 .. 3
                         /\ IF Len(state.hand.trickCards) > 1
                            THEN u.value.hand.trickCards
                                     = SubSeq(state.hand.trickCards, 1,
                                           Len(state.hand.trickCards) - 1)
                            ELSE Len(u.value.hand.trickCards) \in {0, 4}
        /\ (state.phase = "trick" /\ state.hand.trump # None) =>
               \A card \in cardsSubmitted(state) :
                   LET p == state.whoseTurnPlayerId
                       r == playCard(state, p, card)
                   IN r.ok =>
                          \A playerId \in PlayerIds :
                              LET u == undoPlay(r.value, playerId)
                              IN u.ok => /\ playerId = p
                                         /\ u.value = slotEmptied(state)

\* a second play of the trick can be taken back and another player's
\* undoPlay has just been refused
C24_Witness ==
    /\ state # Null /\ state.phase = "trick"
    /\ ~result.ok
    /\ ~slotEmpty(state)
    /\ Len(state.hand.trickCards) >= 2
    /\ state.hand.undoAvailableForPlayerId # state.whoseTurnPlayerId
    /\ undoPlay(state, state.whoseTurnPlayerId) = Err("only the last player may undo")

\* every seat binding a caller submits to rebindSeat
AllRebinds == [seat : SeatNames, newPlayerId : PlayerIds]

\* the undo slot is empty after every successful call other than rebindSeat
\* and the playCard that fills it
slotClearedByCalls(s) ==
    /\ \A in \in DealInputs(s) :
           LET r == dealHand(s, in.playerId, in.mode, in.seed)
           IN r.ok => slotEmpty(r.value)
    /\ \A playerId \in PlayerIds, action \in AuctionActions :
           LET r == applyAction(s, playerId, action)
           IN r.ok => slotEmpty(r.value)
    /\ \A in \in DiscardInputs(s) :
           LET r == discardKitty(s, in.playerId, in.cards)
           IN r.ok => slotEmpty(r.value)
    /\ \A playerId \in PlayerIds, trump \in Colors :
           LET r == declareTrump(s, playerId, trump)
           IN r.ok => slotEmpty(r.value)
    /\ \A playerId \in PlayerIds :
           LET r == undoPlay(s, playerId)
           IN r.ok => slotEmpty(r.value)
    /\ nextHand(s).ok => slotEmpty(nextHand(s).value)
    /\ \A in \in PlayInputs(s) :
           LET r == playCard(s, in.playerId, in.card)
           IN r.ok =>
                  IF Len(s.hand.trickCards) = 3 THEN slotEmpty(r.value)
                  ELSE /\ r.value.hand.undoAvailableForPlayerId = in.playerId
                       /\ r.value.hand.undoState = slotEmptied(s)

\* the undo slot is empty after every successful rebindSeat
slotClearedByRebind(s) ==
    \A in \in AllRebinds :
        LET r == rebindSeat(s, in.seat, in.newPlayerId)
        IN r.ok => slotEmpty(r.value)

\* C25, as the specification states it: the undo slot is empty after every
\* successful mutation other than the playCard that filled it: rebindSeat,
\* dealHand, the bidding actions, discardKitty, declareTrump, undoPlay and
\* nextHand.  rebindSeat copies the hand state, slot included.
C25_UndoSlotCleared ==
    state # Null => (slotClearedByCalls(state) /\ slotClearedByRebind(state))

\* C25 without rebindSeat: the calls that do clear the slot
C25_SlotClearedExceptByRebind ==
    state # Null => slotClearedByCalls(state)

----------------------------------------------------------------------------
(* Hands, phases and seats: claims C26 to C30, on Spec.                     *)

\* whether every hand-scoped field of the hand state `h` is empty
handFieldsReset(h) ==
    /\ h.kitty = <<>> /\ h.kittyPickedUpCards = <<>> /\ ~h.kittyPickedUp
    /\ ~h.pointsNoticeSent
    /\ \A p \in Players : h.hands[p] = <<>>
    /\ h.trickCards = <<>> /\ h.trickLeadColor = None
    /\ h.bidder = NoIndex /\ h.winningBid = Null /\ h.trump = None
    /\ h.capturedByTeam["T1"] = <<>> /\ h.capturedByTeam["T2"] = <<>>
    /\ h.lastTrickWinnerTeam = None
    /\ h.handPoints = Null /\ h.handScores = Null /\ h.biddersSet = Null
    /\ h.undoAvailableForPlayerId = None /\ h.undoState = Null

\* C26: nextHand succeeds only in phase score; it fails with 'game complete'
\* in phase gameOver and with 'hand not complete' in every other phase, and a
\* failed call changes nothing; on success dealerIndex advances by one
\* modulo 4, the phase is preDeal with the new dealer to act, the hand-scoped
\* fields are reset, and the cumulative scores, targetScore, rookRankMode,
\* the deck mode, seatOrder and playerOrder are unchanged.
C26_NextHand ==
    /\ [](state # Null =>
            LET r == nextHand(state)
                dealer == (state.dealerIndex + 1) % 4
            IN /\ r.ok <=> state.phase = "score"
               /\ state.phase = "gameOver" => r = Err("game complete")
               /\ state.phase \notin {"score", "gameOver"} => r = Err("hand not complete")
               /\ r.ok =>
                      /\ r.value.dealerIndex = dealer
                      /\ r.value.dealerSeat = state.seatOrder[dealer]
                      /\ r.value.phase = "preDeal"
                      /\ r.value.hand.phase = "preDeal"
                      /\ r.value.hand.dealerSeat = state.seatOrder[dealer]
                      /\ r.value.whoseTurnSeat = state.seatOrder[dealer]
                      /\ r.value.whoseTurnPlayerId = state.playerOrder[dealer]
                      /\ handFieldsReset(r.value.hand)
                      /\ r.value.bidding.history = <<>>
                      /\ r.value.bidding.highBid = Null
                      /\ r.value.bidding.currentPlayer = (dealer + 1) % 4
                      /\ r.value.winnerTeam = NoIndex
                      /\ r.value.scores = state.scores
                      /\ r.value.gameScore = state.gameScore
                      /\ r.value.targetScore = state.targetScore
                      /\ r.value.rookRankMode = state.rookRankMode
                      /\ r.value.hand.deckMode = state.hand.deckMode
                      /\ r.value.seatOrder = state.seatOrder
                      /\ r.value.playerOrder = state.playerOrder)
    /\ [][(state # Null /\ state.phase # "score" /\ ~result'.ok) => state' = state]_vars

\* the next hand has just been started after a scored hand: the second seat deals
C26_Witness ==
    /\ state # Null /\ state.phase = "preDeal"
    /\ result.ok
    /\ state.dealerIndex = 1
    /\ state.whoseTurnSeat = "T2P1"
    /\ state.scores # [t \in Teams |-> 0]
    /\ handFieldsReset(state.hand)

\* the phase changes of a hand and from one hand to the next
PhaseSteps ==
    { <<"preDeal", "bidding">>, <<"bidding", "kitty">>, <<"kitty", "declareTrump">>,
      <<"declareTrump", "trick">>, <<"trick", "score">>, <<"trick", "gameOver">>,
      <<"score", "preDeal">> }

\* the states startGame creates
FreshGames == {startGame(readyRoom, settings).value : settings \in GameSettings}

\* five cards of a hand of the state `s`, or no card when no hand holds five
someDiscard(s) ==
    IF \E p \in Players : Len(s.hand.hands[p]) >= 5
    THEN SubSeq(s.hand.hands[CHOOSE p \in Players : Len(s.hand.hands[p]) >= 5], 1, 5)
    ELSE <<>>

\* C27: the phase changes only along preDeal -> bidding -> kitty ->
\* declareTrump -> trick -> (score or gameOver) and score -> preDeal; no call
\* skips a phase or moves the phase backwards within a hand, undoPlay keeps
\* the phase at trick, and every call made outside its phase is rejected.
C27_PhaseOrder ==
    /\ [](state # Null =>
            /\ state.hand.phase = state.phase
            /\ nextHand(state).ok =>
                   state.phase = "score" /\ nextHand(state).value.phase = "preDeal"
            /\ \A playerId \in PlayerIds :
                   /\ \A mode \in {None, "rookHigh", "rookLow"} :
                          LET r == dealHand(state, playerId, mode, 0)
                          IN r.ok => state.phase = "preDeal" /\ r.value.phase = "bidding"
                   /\ \A action \in AuctionActions :
                          LET r == applyAction(state, playerId, action)
                          IN r.ok => /\ state.phase = "bidding"
                                     /\ r.value.phase \in {"bidding", "kitty"}
                   /\ pickupKitty(state, playerId).ok => state.phase = "kitty"
                   /\ \A cards \in discardsSubmitted(state) \cup {someDiscard(state)} :
                          LET r == discardKitty(state, playerId, cards)
                          IN r.ok => /\ state.phase = "kitty"
                                     /\ r.value.phase = "declareTrump"
                   /\ \A trump \in Colors :
                          LET r == declareTrump(state, playerId, trump)
                          IN r.ok => /\ state.phase = "declareTrump"
                                     /\ r.value.phase = "trick"
                   /\ \A card \in Range(buildDeck("full")) :
                          LET r == playCard(state, playerId, card)
                          IN r.ok => /\ state.phase = "trick"
                                     /\ r.value.phase \in {"trick", "score", "gameOver"}
                   /\ LET r == undoPlay(state, playerId)
                      IN r.ok => state.phase = "trick" /\ r.value.phase = "trick")
    /\ [][(state # Null /\ state'.phase # state.phase) =>
             \/ <<state.phase, state'.phase>> \in PhaseSteps
             \/ state' \in FreshGames]_vars

\* in the pre-deal of the second hand a call of another phase has just been refused
C27_Witness ==
    /\ state # Null /\ state.phase = "preDeal"
    /\ state.dealerIndex = 1
    /\ ~result.ok
    /\ state \notin FreshGames

\* C28: after startGame the phase is preDeal with the dealer to act;
\* dealHand succeeds only in phase preDeal and only for the player bound to
\* the dealer's seat, failing otherwise with 'deal not ready' or 'only dealer
\* may deal' and changing nothing; on success the phase is bidding, there is
\* no bidder, winning bid or trump, the trick buffer, the captured piles and
\* the undo slot are empty, the kitty has 5 cards and the four hands are of
\* equal size, the cumulative scores are kept and the first bidder is the
\* seat left of the dealer, in every hand of the game.
C28_DealHand ==
    /\ [](\A g \in FreshGames :
              /\ g.phase = "preDeal"
              /\ g.whoseTurnSeat = g.seatOrder[g.dealerIndex]
              /\ g.whoseTurnPlayerId = g.playerOrder[g.dealerIndex])
    /\ [](state # Null =>
            /\ state.phase = "preDeal" =>
                   /\ state.whoseTurnSeat = state.seatOrder[state.dealerIndex]
                   /\ state.whoseTurnPlayerId = state.playerOrder[state.dealerIndex]
            /\ \A playerId \in PlayerIds, mode \in {None, "rookHigh", "rookLow", "rookMid"},
                     seed \in 0 .. (NumSeeds - 1) :
                   LET r == dealHand(state, playerId, mode, seed)
                       dealer == state.playerOrder[state.dealerIndex]
                       first == (state.dealerIndex + 1) % 4
                   IN /\ r.ok <=> /\ state.phase = "preDeal"
                                  /\ playerId = dealer
                                  /\ mode # "rookMid"
                      /\ state.phase # "preDeal" => r = Err("deal not ready")
                      /\ (state.phase = "preDeal" /\ playerId # dealer)
                             => r = Err("only dealer may deal")
                      /\ r.ok =>
                             LET h == r.value.hand
                             IN /\ r.value.phase = "bidding" /\ h.phase = "bidding"
                                /\ h.bidder = NoIndex /\ h.winningBid = Null
                                /\ h.trump = None
                                /\ h.trickCards = <<>> /\ h.trickLeadColor = None
                                /\ h.capturedByTeam["T1"] = <<>>
                                /\ h.capturedByTeam["T2"] = <<>>
                                /\ h.lastTrickWinnerTeam = None
                                /\ h.handPoints = Null /\ h.handScores = Null
                                /\ slotEmpty(r.value)
                                /\ Len(h.kitty) = 5 /\ ~h.kittyPickedUp
                                /\ \A p \in Players : Len(h.hands[p]) = handSize(state)
                                /\ r.value.scores = state.scores
                                /\ r.value.dealerIndex = state.dealerIndex
                                /\ r.value.bidding
                                       = createBiddingState(first, state.bidding.minBid,
                                             state.bidding.step)
                                /\ r.value.whoseTurnSeat = state.seatOrder[first]
                                /\ r.value.whoseTurnPlayerId = state.playerOrder[first]
                                /\ r.value.rookRankMode
                                       = IF mode = None THEN state.rookRankMode ELSE mode)
    /\ [][(state # Null /\ state.phase = "preDeal" /\ ~result'.ok) => state' = state]_vars

\* the dealer has just dealt the fast deck with the Rook low: the seat to the
\* dealer's left bids first
C28_Witness ==
    /\ state # Null /\ state.phase = "bidding"
    /\ result.ok
    /\ state.bidding.history = <<>>
    /\ state.bidding.currentPlayer = (state.dealerIndex + 1) % 4
    /\ state.whoseTurnSeat = "T2P1"
    /\ state.rookRankMode = "rookLow"
    /\ state.hand.deckMode = "fast"
    /\ Len(state.hand.kitty) = 5

\* C29: rebindSeat(seat, newPlayerId) on a valid seat succeeds in any phase
\* and changes only playerOrder at that seat's index and, when that seat is
\* the one to move, whoseTurnPlayerId (set to newPlayerId); whoseTurnSeat,
\* phase, bidding state, hands, kitty, trick buffer, captured piles, scores
\* and dealer are unchanged; an unknown seat is rejected with 'invalid seat'.
\* The action conjunct reads the same frame off the steps of the store that
\* change playerOrder and are neither a startGame nor a take-back.
C29_RebindSeatFrame ==
    /\ [](state # Null =>
            /\ \A in \in AllRebinds :
                   LET r == rebindSeat(state, in.seat, in.newPlayerId)
                       index == IndexOf(state.seatOrder, in.seat)
                   IN /\ r.ok
                      /\ DOMAIN r.value = DOMAIN state
                      /\ \A field \in DOMAIN state \ {"playerOrder", "whoseTurnPlayerId"} :
                             r.value[field] = state[field]
                      /\ DOMAIN r.value.playerOrder = DOMAIN state.playerOrder
                      /\ r.value.playerOrder[index] = in.newPlayerId
                      /\ \A i \in DOMAIN state.playerOrder \ {index} :
                             r.value.playerOrder[i] = state.playerOrder[i]
                      /\ r.value.whoseTurnPlayerId
                             = IF state.whoseTurnSeat = in.seat THEN in.newPlayerId
                               ELSE state.whoseTurnPlayerId
            /\ \A newPlayerId \in PlayerIds :
                   rebindSeat(state, "T3P1", newPlayerId) = Err("invalid seat"))
    /\ [][(/\ state # Null /\ state'.playerOrder # state.playerOrder
            /\ state' \notin FreshGames
            /\ \A playerId \in PlayerIds :
                   LET r == undoPlay(state, playerId) IN ~(r.ok /\ state' = r.value)) =>
             \A field \in DOMAIN state \ {"playerOrder", "whoseTurnPlayerId"} :
                 state'[field] = state[field]]_vars

\* in the middle of a trick the seat to move has been rebound to a new player
C29_Witness ==
    /\ state # Null /\ state.phase = "trick"
    /\ state.hand.trickCards # <<>>
    /\ result.ok
    /\ state.whoseTurnPlayerId = "p4"
    /\ state.playerOrder[turnIndex(state)] = "p4"

\* C30, as the specification states it: seats and players are in 1:1
\* correspondence for the whole game: in every reachable state, also after
\* rebindSeat calls, playerOrder holds four distinct player ids, so a card a
\* player plays is taken from the hand of the seat that player is bound to.
\* rebindSeat writes newPlayerId without looking at the other seats, so the
\* state after rebindSeat('T2P1', 'p0') violates it.
C30_SeatsAndPlayers ==
    state # Null =>
        /\ Cardinality({state.playerOrder[i] : i \in Players}) = 4
        /\ \A playerId \in PlayerIds : Cardinality(seatsOf(state, playerId)) <= 1
        /\ (state.phase = "trick" /\ state.hand.trump # None) =>
               \A playerId \in PlayerIds, card \in cardsSubmitted(state) :
                   LET r == playCard(state, playerId, card)
                   IN r.ok =>
                          \A i \in Players :
                              Len(r.value.hand.hands[i])
                                  = IF i \in seatsOf(state, playerId)
                                    THEN Len(state.hand.hands[i]) - 1
                                    ELSE Len(state.hand.hands[i])

----------------------------------------------------------------------------
(* Rejections and the hand history: claims C31 and C32, on Spec.            *)

\* the messages of the rejections of GameStore; applyAction forwards the
\* message of the Error that reduceGameState or the bidding engine threw
GameErrors ==
    { "game missing", "deal not ready", "only dealer may deal", "invalid rook rank mode",
      "kitty not available", "kitty already picked up", "kitty must be picked up first",
      "no winning bid", "discard must match kitty size", "discard cards missing from hand",
      "only the bidder may act", "player not seated", "trump not ready",
      "trick not active", "not your turn", "trump not set", "illegal play",
      "no undo available", "only the last player may undo", "undo window closed",
      "hand not complete", "game complete", "invalid seat",
      "bidding not active", "Action must be taken by the current player.",
      "Bidding is complete. No further actions allowed.", "Passed players cannot act.",
      "Bid must be at least minBid.", "Bid cannot exceed 200.",
      "Bid must be in increments of step.", "Bid must exceed the current high bid.",
      "Cannot pass partner before any bid is made.",
      "PassPartner is only allowed when your partner is the high bidder.",
      "PassPartner has already been used by this team." }

\* a result is a value or a rejection { ok: false, error } and nothing else
returnedAsResult(r) ==
    IF r.ok THEN "value" \in DOMAIN r
    ELSE DOMAIN r = {"ok", "error"} /\ r.error \in GameErrors

\* every call of the store on the state `s` returns a result
callsReturnResults(s) ==
    /\ returnedAsResult(nextHand(s))
    /\ \A in \in AllRebinds \cup [seat : {"T3P1"}, newPlayerId : PlayerIds] :
           returnedAsResult(rebindSeat(s, in.seat, in.newPlayerId))
    /\ \A playerId \in PlayerIds :
           /\ \A mode \in {None, "rookHigh", "rookLow", "rookMid"} :
                  returnedAsResult(dealHand(s, playerId, mode, 0))
           /\ \A action \in AuctionActions :
                  returnedAsResult(applyAction(s, playerId, action))
           /\ returnedAsResult(pickupKitty(s, playerId))
           /\ \A cards \in (IF s = Null THEN {} ELSE discardsSubmitted(s) \cup {someDiscard(s)})
                               \cup {<<>>, <<Rook>>} :
                  returnedAsResult(discardKitty(s, playerId, cards))
           /\ \A trump \in Colors : returnedAsResult(declareTrump(s, playerId, trump))
           /\ \A card \in Range(buildDeck("full")) :
                  returnedAsResult(playCard(s, playerId, card))
           /\ returnedAsResult(undoPlay(s, playerId))

\* C31: every GameStore call that is rejected (wrong phase, wrong actor,
\* invalid content, unknown room) on applyAction, dealHand, pickupKitty,
\* discardKitty, declareTrump, playCard, undoPlay, nextHand or rebindSeat
\* returns an { ok: false, error } value without throwing, and the stored
\* GameState after the call is identical to the one before it.
C31_FailureAtomicity ==
    /\ [](callsReturnResults(state))
    /\ [](state = Null =>
            /\ nextHand(state) = Err("game missing")
            /\ rebindSeat(state, "T1P1", "p4") = Err("game missing")
            /\ \A playerId \in PlayerIds :
                   /\ dealHand(state, playerId, None, 0) = Err("game missing")
                   /\ applyAction(state, playerId, [type |-> "pass"]) = Err("game missing")
                   /\ pickupKitty(state, playerId) = Err("game missing")
                   /\ discardKitty(state, playerId, <<>>) = Err("game missing")
                   /\ declareTrump(state, playerId, "red") = Err("game missing")
                   /\ playCard(state, playerId, Rook) = Err("game missing")
                   /\ undoPlay(state, playerId) = Err("game missing"))
    /\ [][~result'.ok => state' = state]_vars

\* in the middle of a trick, with a play that can still be taken back, a call
\* has just been rejected
C31_Witness ==
    /\ state # Null /\ state.phase = "trick"
    /\ state.hand.trickCards # <<>>
    /\ ~slotEmpty(state)
    /\ ~result.ok

\* state.handHistory as the server's public view reads it: the property of
\* the GameState object, undefined when the object has none
handHistory(s) == IF "handHistory" \in DOMAIN s THEN s.handHistory ELSE None

\* the hands of the game scored so far: every hand dealt, less the one in play
handsScoredSoFar ==
    IF state.phase \in {"preDeal", "score", "gameOver"} THEN dealt ELSE dealt - 1

\* C32, as the specification states it: GameState carries an append-only
\* handHistory; each scored hand appends exactly one entry holding bid amount,
\* bidder, bidding team, set flag and hand scores; no other action changes
\* it; its length is the number of hands scored so far in the game.
\* The GameState that GameStore builds has no such field and no call writes
\* one, so the read is undefined in every state.
C32_HandHistory ==
    state # Null =>
        LET history == handHistory(state)
        IN /\ history # None
           /\ Len(history) = handsScoredSoFar
           /\ handScored(state) =>
                  LET entry == history[Len(history)]
                  IN /\ entry.bidAmount = state.hand.winningBid.amount
                     /\ entry.bidder = state.hand.bidder
                     /\ entry.biddingTeam = teamOf(state.hand.bidder)
                     /\ entry.set = state.hand.biddersSet
                     /\ entry.handScores = state.hand.handScores

----------------------------------------------------------------------------
(* deal on its own: decks of every length and kitty sizes around the       *)
(* valid ones.                                                              *)

\* kitty sizes submitted: negative, zero, the sizes of a game and others
KittySizes == (0 - 1) .. 6

\* the decks submitted: every prefix of the two decks, and the shuffled decks
DealDecks ==
    {SubSeq(buildDeck("full"), 1, n) : n \in 0 .. Len(buildDeck("full"))}
        \cup {SubSeq(buildDeck("fast"), 1, n) : n \in 0 .. Len(buildDeck("fast"))}
        \cup {shuffle(buildDeck(deckMode), seed) :
                  deckMode \in {"full", "fast"}, seed \in 0 .. (NumSeeds - 1)}

DealProbes ==
    [ fn : {"deal"}, deck : DealDecks, kittySize : KittySizes,
      applied : {FALSE}, out : {Null} ]

ApplyDeal ==
    /\ probe.fn = "deal" /\ ~probe.applied
    /\ probe' = [probe EXCEPT !.applied = TRUE, !.out = deal(probe.deck, probe.kittySize)]
    /\ UNCHANGED <<state, result, dealt, frees, bidding, thrown, room, handState>>

InitDeal ==
    /\ probe \in DealProbes
    /\ state = Null
    /\ result = [ok |-> TRUE]
    /\ dealt = 0
    /\ frees = 0
    /\ bidding = Null
    /\ thrown = None
    /\ room = Null
    /\ handState = Null

NextDeal == ApplyDeal

SpecDeal == InitDeal /\ [][NextDeal]_vars

\* how many times the card `c` occurs in the list `cards`
occurrences(cards, c) == Cardinality({i \in 1 .. Len(cards) : cards[i] = c})

\* C33: deal(deck, kittySize) fails with an error when kittySize <= 0 or when
\* deck.length - kittySize is not a positive multiple of 4; otherwise card k
\* of the deck (0-based, k < deck.length - kittySize) goes to hand k mod 4 in
\* deck order and the remaining kittySize cards form the kitty, so the four
\* hands and the kitty partition the deck: 13 cards each plus 5 for the
\* 57-card full deck, 10 each plus 5 for the 45-card fast deck.
C33_Deal ==
    (probe # Null /\ probe.fn = "deal" /\ probe.applied) =>
        LET deck == probe.deck
            kittySize == probe.kittySize
            out == probe.out
            remaining == Len(deck) - kittySize
        IN /\ ~out.ok <=> \/ kittySize <= 0
                          \/ ~(remaining > 0 /\ remaining % 4 = 0)
           /\ ~out.ok => DOMAIN out = {"ok", "error"}
           /\ out.ok =>
                  /\ \A p \in Players : Len(out.hands[p]) = remaining \div 4
                  /\ \A k \in 0 .. (remaining - 1) :
                         out.hands[k % 4][(k \div 4) + 1] = deck[k + 1]
                  /\ Len(out.kitty) = kittySize
                  /\ \A j \in 1 .. kittySize : out.kitty[j] = deck[remaining + j]
                  /\ \A c \in Range(deck) :
                         occurrences(deck, c)
                             = occurrences(out.hands[0], c) + occurrences(out.hands[1], c)
                                 + occurrences(out.hands[2], c) + occurrences(out.hands[3], c)
                                 + occurrences(out.kitty, c)
                  /\ (Len(deck) = 57 /\ kittySize = 5) =>
                         \A p \in Players : Len(out.hands[p]) = 13
                  /\ (Len(deck) = 45 /\ kittySize = 5) =>
                         \A p \in Players : Len(out.hands[p]) = 10

\* the shuffled full deck has been dealt with a kitty of 5
C33_Witness ==
    /\ probe # Null /\ probe.fn = "deal" /\ probe.applied
    /\ probe.out.ok
    /\ Len(probe.deck) = 57 /\ probe.deck # buildDeck("full")
    /\ probe.kittySize = 5
    /\ Len(probe.out.hands[3]) = 13 /\ Len(probe.out.kitty) = 5

----------------------------------------------------------------------------
(* apps/server/src/rooms.ts: RoomStore with one room code.  A Room's       *)
(* players is the Set in insertion order, ready and playerNames are the    *)
(* Maps as functions on the keys they hold.                                 *)

\* the ids submitted: two players and the empty string
RoomPlayerIds == {"", "a", "b"}

\* the seats submitted: the four seats and a name that is no seat
SeatsSubmitted == SeatNames \cup {"T3P1"}

isSeat(seat) == seat \in SeatNames

createEmptySeats == [seat \in SeatNames |-> None]

\* JavaScript truthiness of a seat's owner: null and the empty string are falsy
truthy(owner) == owner # None /\ owner # ""

\* Map.set and Map.delete
mapSet(map, key, value) ==
    [k \in DOMAIN map \cup {key} |-> IF k = key THEN value ELSE map[k]]
mapDelete(map, key) == [k \in DOMAIN map \ {key} |-> map[k]]

\* Set.add and Set.delete, keeping the insertion order
setAdd(members, x) == IF x \in Range(members) THEN members ELSE Append(members, x)
setDelete(members, x) == SelectSeq(members, LAMBDA m : m # x)

\* the seats with every seat of the player emptied
vacated(seats, playerId) ==
    [seat \in SeatNames |-> IF seats[seat] = playerId THEN None ELSE seats[seat]]

\* playerName is omitted in every call
normalizePlayerName == "Guest"

\* targetScore is omitted in every call
normalizeTargetScore == 700

toState(r) ==
    [ roomCode |-> r.roomCode, seats |-> r.seats, players |-> r.players,
      ready |-> r.ready, playerNames |-> r.playerNames, ownerId |-> r.ownerId,
      targetScore |-> r.targetScore ]

\* each method of RoomStore: [ok, room, value] with the Room after the call
\* and the RoomState returned, or the error
RoomOk(r) == [ok |-> TRUE, room |-> r, value |-> toState(r)]

removePlayer(r, playerId) ==
    IF r = Null THEN Err("room missing")
    ELSE RoomOk([r EXCEPT
            !.players = setDelete(r.players, playerId),
            !.ready = mapDelete(r.ready, playerId),
            !.playerNames = mapDelete(r.playerNames, playerId),
            !.seats = vacated(r.seats, playerId)])

createRoom(r, playerId) ==
    IF r # Null THEN Err("room exists")
    ELSE RoomOk([ roomCode |-> "ROOM",
                  seats |-> createEmptySeats,
                  players |-> <<playerId>>,
                  ready |-> mapSet(<<>>, playerId, FALSE),
                  playerNames |-> mapSet(<<>>, playerId, normalizePlayerName),
                  ownerId |-> playerId,
                  targetScore |-> normalizeTargetScore ])

joinRoom(r, playerId) ==
    IF r = Null THEN Err("room missing")
    ELSE RoomOk([r EXCEPT
            !.players = setAdd(r.players, playerId),
            !.ready = IF playerId \in DOMAIN r.ready THEN r.ready
                      ELSE mapSet(r.ready, playerId, FALSE),
            !.playerNames = mapSet(r.playerNames, playerId, normalizePlayerName)])

\* sit that lets a player keep the seat they had
sitKeepingOldSeat(r, playerId, seat) ==
    IF r = Null THEN Err("room missing")
    ELSE IF ~isSeat(seat) THEN Err("invalid seat")
    ELSE IF truthy(r.seats[seat]) /\ r.seats[seat] # playerId THEN Err("seat taken")
    ELSE RoomOk([r EXCEPT
            !.seats = [r.seats EXCEPT ![seat] = playerId],
            !.ready = mapSet(r.ready, playerId, TRUE)])

sit(r, playerId, seat) ==
    IF r = Null THEN Err("room missing")
    ELSE IF ~isSeat(seat) THEN Err("invalid seat")
    ELSE IF truthy(r.seats[seat]) /\ r.seats[seat] # playerId THEN Err("seat taken")
    ELSE RoomOk([r EXCEPT
            !.seats = [vacated(r.seats, playerId) EXCEPT ![seat] = playerId],
            !.ready = mapSet(r.ready, playerId, TRUE)])

leaveSeat(r, playerId) ==
    IF r = Null THEN Err("room missing")
    ELSE RoomOk([r EXCEPT
            !.seats = vacated(r.seats, playerId),
            !.ready = mapSet(r.ready, playerId, FALSE)])

setReady(r, playerId, ready) ==
    IF r = Null THEN Err("room missing")
    ELSE RoomOk([r EXCEPT
            !.players = setAdd(r.players, playerId),
            !.ready = mapSet(r.ready, playerId, ready)])

\* one call of RoomStore: the Room is the one after the call, or the one
\* before it when the call is rejected
RoomCalled(r) ==
    /\ room' = IF r.ok THEN r.room ELSE room
    /\ result' = Outcome(r)
    /\ UNCHANGED <<state, dealt, frees, bidding, thrown, probe, handState>>

RemovePlayer(playerId) == RoomCalled(removePlayer(room, playerId))
CreateRoom(playerId) == RoomCalled(createRoom(room, playerId))
JoinRoom(playerId) == RoomCalled(joinRoom(room, playerId))
Sit(playerId, seat) == RoomCalled(sit(room, playerId, seat))
LeaveSeat(playerId) == RoomCalled(leaveSeat(room, playerId))
SetReady(playerId, ready) == RoomCalled(setReady(room, playerId, ready))

InitRooms ==
    /\ room = Null
    /\ result = [ok |-> TRUE]
    /\ state = Null
    /\ dealt = 0
    /\ frees = 0
    /\ bidding = Null
    /\ thrown = None
    /\ probe = Null
    /\ handState = Null

NextRooms ==
    \/ \E playerId \in RoomPlayerIds : RemovePlayer(playerId)
    \/ \E playerId \in RoomPlayerIds : CreateRoom(playerId)
    \/ \E playerId \in RoomPlayerIds : JoinRoom(playerId)
    \/ \E playerId \in RoomPlayerIds, seat \in SeatsSubmitted : Sit(playerId, seat)
    \/ \E playerId \in RoomPlayerIds : LeaveSeat(playerId)
    \/ \E playerId \in RoomPlayerIds, ready \in BOOLEAN : SetReady(playerId, ready)

SpecRooms == InitRooms /\ [][NextRooms]_vars

\* the seats the player holds in the Room `r`
seatsHeld(r, playerId) == {seat \in SeatNames : r.seats[seat] = playerId}

\* no player occupies more than one seat
seatsExclusive(r) == \A playerId \in RoomPlayerIds : Cardinality(seatsHeld(r, playerId)) <= 1

\* what a sit, accepted or not, and a leaveSeat do on the Room `r`, for the
\* seats whose holder is in `holders`
sitAndLeaveAsSpecified(r, holders) ==
    \A playerId \in RoomPlayerIds :
        /\ \A seat \in SeatNames :
               LET called == sit(r, playerId, seat)
               IN /\ (r.seats[seat] \in holders \ {playerId})
                         => called = Err("seat taken")
                  /\ called.ok =>
                         /\ seatsHeld(called.room, playerId) = {seat}
                         /\ called.room.ready[playerId]
                         /\ called.value.seats[seat] = playerId
                         /\ seatsExclusive(called.room)
        /\ LET called == leaveSeat(r, playerId)
           IN /\ called.ok
              /\ seatsHeld(called.room, playerId) = {}
              /\ ~called.room.ready[playerId]
              /\ \A other \in RoomPlayerIds \ {playerId} :
                     seatsHeld(called.room, other) = seatsHeld(r, other)

\* C34, as the specification states it: after any sequence of createRoom,
\* joinRoom, sit, leaveSeat, setReady and removePlayer calls no player
\* occupies more than one seat; sit on a seat held by another player fails
\* with 'seat taken' and changes nothing; a successful sit vacates the
\* player's previous seat and marks the player ready; leaveSeat frees the
\* player's seat and marks the player not ready.
\* sit tests the holder of the seat for truthiness, so a seat held by the
\* player whose id is the empty string is handed to the next player who sits.
C34_SeatExclusivity ==
    room # Null =>
        /\ seatsExclusive(room)
        /\ sitAndLeaveAsSpecified(room, RoomPlayerIds)

\* C34 for the holders whose id is not empty: it holds in every reachable Room
C34_SeatExclusivityNonEmptyIds ==
    /\ [](room # Null =>
            /\ seatsExclusive(room)
            /\ sitAndLeaveAsSpecified(room, RoomPlayerIds \ {""}))
    /\ [][~result'.ok => room' = room]_vars

----------------------------------------------------------------------------
(* The winner of the auction and the turn: claim C35, on SpecBidding.      *)

\* the bidder reduceGameState records when the auction `b` completes with a bid
bidderOf(b) == getWinningBid(b).player

\* C35, as stated: when bidding completes after at least one bid the winning
\* bidder has not passed, the player recorded as hand.bidder being the single
\* player whose passed flag is false; and during the auction it is never the
\* turn of the player who holds the high bid, also after a pass-partner by
\* that player's partner.
\* A pass-partner keeps its player active, so the turn can come round to the
\* holder of the high bid, who may then pass and still win.
C35_WinnerHasNotPassed ==
    bidding # Null =>
        /\ (isBiddingComplete(bidding) /\ bidding.highBid # Null) =>
               /\ ~bidding.passed[bidderOf(bidding)]
               /\ {p \in Players : ~bidding.passed[p]} = {bidderOf(bidding)}
        /\ (~isBiddingComplete(bidding) /\ bidding.highBid # Null) =>
               bidding.currentPlayer # bidding.highBid.player

\* the history positions of the bids of the auction `b`
bidPositions(b) == {i \in 1 .. Len(b.history) : b.history[i].type = "bid"}

\* whether, since the last bid of the auction `b`, the partner of the player
\* who made it has passed partner
partnerPassedSinceLastBid(b) ==
    \E i \in 1 .. Len(b.history) :
        /\ b.history[i].type = "passPartner"
        /\ b.history[i].player = partnerOf(b.highBid.player)
        /\ \A j \in bidPositions(b) : j < i

\* C35, amended: when bidding completes after at least one bid, the bidder is
\* the owner of the high bid, the player of the last bid of the history.  It
\* is the turn of the holder of the high bid, or the winner has passed, only
\* when that player's partner has passed partner since the bid; in every
\* other auction the winner is the single player who has not passed.
C35_WinnerOwnsHighBid ==
    (bidding # Null /\ bidding.highBid # Null) =>
        LET holder == bidding.highBid.player
            lastBid == bidding.history[CHOOSE i \in bidPositions(bidding) :
                                          \A j \in bidPositions(bidding) : j <= i]
        IN /\ bidPositions(bidding) # {}
           /\ lastBid.player = holder /\ lastBid.amount = bidding.highBid.amount
           /\ isBiddingComplete(bidding) =>
                  /\ bidderOf(bidding) = holder
                  /\ bidding.passed[holder] => partnerPassedSinceLastBid(bidding)
                  /\ ~partnerPassedSinceLastBid(bidding) =>
                         {p \in Players : ~bidding.passed[p]} = {holder}
           /\ (~isBiddingComplete(bidding) /\ bidding.currentPlayer = holder) =>
                  partnerPassedSinceLastBid(bidding)

\* the holder of the high bid, given the turn after a pass-partner, has
\* passed and has won the auction; the partner is the only player who has
\* not passed
C35_Witness ==
    /\ bidding # Null /\ bidding.highBid # Null
    /\ isBiddingComplete(bidding)
    /\ bidding.passed[bidderOf(bidding)]
    /\ {p \in Players : ~bidding.passed[p]} = {partnerOf(bidderOf(bidding))}
    /\ thrown = None

----------------------------------------------------------------------------
(* Rebinding and the take-back, the winner and the length of a hand:       *)
(* claims C36 to C39, on Spec.                                              *)

\* C36, as stated: once rebindSeat(seat, newPlayerId) has succeeded,
\* playerOrder at that seat stays newPlayerId, and newPlayerId is the
\* identity accepted for that seat's turns, after every later playCard and
\* undoPlay until the seat is rebound again; an undoPlay issued after the
\* rebind does not bring back the previous player id.
\* undoPlay stores the snapshot taken before the play, playerOrder and
\* whoseTurnPlayerId included, and rebindSeat leaves that snapshot in the
\* undo slot, so the take-back restores the binding of before the rebind.
C36_RebindSurvivesUndo ==
    (state # Null /\ state.phase = "trick" /\ state.hand.trump # None) =>
        \A in \in AllRebinds :
            LET rebound == rebindSeat(state, in.seat, in.newPlayerId).value
                index == IndexOf(state.seatOrder, in.seat)
            IN /\ rebound.playerOrder[index] = in.newPlayerId
               /\ \A playerId \in PlayerIds :
                      /\ LET r == undoPlay(rebound, playerId)
                         IN r.ok =>
                                /\ r.value.playerOrder[index] = in.newPlayerId
                                /\ r.value.whoseTurnSeat = in.seat
                                       => r.value.whoseTurnPlayerId = in.newPlayerId
                      /\ \A card \in cardsSubmitted(rebound) :
                             LET r == playCard(rebound, playerId, card)
                             IN r.ok =>
                                    /\ r.value.playerOrder[index] = in.newPlayerId
                                    /\ r.value.whoseTurnSeat = in.seat
                                           => r.value.whoseTurnPlayerId = in.newPlayerId

\* cumulative scores a game can bring into a hand, both below the target:
\* 0 for both teams, and for a target of 200 or more in hundreds the pair
\* (target - 100, target - 95), which the hands (-100, 105), (200, 0) and
\* then hands of (100, 100) add up to without either team reaching the target
CarriedScores(targetScore) ==
    { [t \in Teams |-> 0] }
    \cup IF targetScore >= 200 /\ targetScore % 100 = 0
         THEN { [t \in Teams |-> IF t = 0 THEN targetScore - 100
                                          ELSE targetScore - 95] }
         ELSE {}
withScores(s, carried) == [s EXCEPT !.scores = carried, !.gameScore = carried]

\* whether the winner recorded in the state `s` has reached the target and
\* is not behind the other team
winnerLeads(s) ==
    s.winnerTeam # NoIndex =>
        /\ s.scores[s.winnerTeam] >= s.targetScore
        /\ s.scores[s.winnerTeam] >= s.scores[1 - s.winnerTeam]

\* C37, as stated: whenever winnerTeam is set, that team's cumulative score
\* is >= targetScore and is not lower than the other team's cumulative
\* score, also when both teams reach targetScore in the same hand.
\* playCard tests team 0 first, so team 0 is the winner whenever it has
\* reached the target, whatever team 1 has.
C37_WinnerLeads ==
    state # Null =>
        /\ winnerLeads(state)
        /\ (state.phase = "trick" /\ state.hand.trump # None) =>
               \A carried \in CarriedScores(state.targetScore) :
                   \A playerId \in PlayerIds, card \in cardsSubmitted(state) :
                       LET r == playCard(withScores(state, carried), playerId, card)
                       IN r.ok => winnerLeads(r.value)

\* tricks already taken in the hand: the captured cards, four to a trick
completedTricks(s) ==
    (Len(s.hand.capturedByTeam["T1"]) + Len(s.hand.capturedByTeam["T2"])) \div 4

\* every player id is bound to one seat at most
oneSeatEach(s) == Cardinality({s.playerOrder[i] : i \in Players}) = 4

\* the three parts of C38 on one state
trickPlayGoesOn(s) ==
    s.phase = "trick" =>
        LET seatOnTurn == IndexOf(s.seatOrder, s.whoseTurnSeat)
        IN /\ seatOnTurn \in Players
           /\ Len(s.hand.hands[seatOnTurn]) >= 1
           /\ \E i \in 1 .. Len(s.hand.hands[seatOnTurn]) :
                  playCard(s, s.whoseTurnPlayerId, s.hand.hands[seatOnTurn][i]).ok

handsLevel(s) ==
    (s.phase = "trick" /\ Len(s.hand.trickCards) \in {0, 4}) =>
        \A i, j \in Players : Len(s.hand.hands[i]) = Len(s.hand.hands[j])

handLengthFixed(s) ==
    /\ s.phase = "trick" => completedTricks(s) < handSize(s)
    /\ s.phase = "trick" =>
           \A playerId \in PlayerIds, card \in cardsSubmitted(s) :
               LET r == playCard(s, playerId, card)
               IN r.ok =>
                      (r.value.phase \in {"score", "gameOver"}
                           <=> completedTricks(r.value) = handSize(s))

\* C38: in every reachable trick-phase state the player to move holds at
\* least one card and playCard accepts at least one of their cards; all four
\* hands have the same size whenever the trick buffer holds 0 or 4 cards;
\* and the hand reaches score or gameOver after exactly 13 completed tricks
\* with the full deck and 10 with the fast deck (the captured cards count the
\* plays net of undos).
C38_TrickPlay ==
    state # Null =>
        /\ trickPlayGoesOn(state)
        /\ handsLevel(state)
        /\ handLengthFixed(state)

\* the same on the states where no player id is bound to two seats
C38_TrickPlayOneSeatEach ==
    (state # Null /\ oneSeatEach(state)) =>
        /\ trickPlayGoesOn(state)
        /\ handsLevel(state)
        /\ handLengthFixed(state)

\* C39: in every reachable state with phase kitty, hand.bidder and
\* hand.winningBid are set, kittyPickedUp is true and the kitty is empty;
\* therefore pickupKitty never succeeds in any reachable state, and
\* discardKitty is never rejected with 'kitty must be picked up first' or
\* 'no winning bid'.
C39_KittyPickedUpByTheAuction ==
    /\ (state # Null /\ state.phase = "kitty") =>
           /\ state.hand.bidder \in Players
           /\ state.hand.winningBid # Null
           /\ state.hand.winningBid.player = state.hand.bidder
           /\ state.hand.kittyPickedUp
           /\ state.hand.kitty = <<>>
    /\ \A playerId \in PlayerIds : ~pickupKitty(state, playerId).ok
    /\ \A playerId \in PlayerIds :
           \A cards \in (IF state = Null THEN {}
                         ELSE discardsSubmitted(state) \cup {someDiscard(state)})
                            \cup {<<>>, <<Rook>>} :
               LET r == discardKitty(state, playerId, cards)
               IN ~r.ok => r.error \notin {"kitty must be picked up first", "no winning bid"}

\* the auction has ended and the bidder holds the kitty cards; a call has
\* just been rejected, and the bidder's pickupKitty is answered 'kitty already
\* picked up'
C39_Witness ==
    /\ state # Null /\ state.phase = "kitty"
    /\ state.hand.kittyPickedUp
    /\ Len(state.hand.hands[state.hand.bidder]) = handSize(state) + KITTY_SIZE
    /\ ~result.ok
    /\ pickupKitty(state, state.playerOrder[state.hand.bidder])
           = Err("kitty already picked up")

----------------------------------------------------------------------------
(* packages/rook-engine/src/hand.ts: the engine's own hand flow.  A        *)
(* HandState is threaded through applyHandAction; a throw leaves the       *)
(* caller's HandState as it was.                                           *)

\* winningBid: number | null; null is written as this number
NoAmount == 0 - 1

createHandStateFromDeal(settings, hands, kitty) ==
    [ phase        |-> "bidding",
      settings     |-> settings,
      hands        |-> hands,
      kitty        |-> kitty,
      trumpColor   |-> None,
      bidder       |-> NoIndex,
      winningBid   |-> NoAmount,
      biddingState |-> createBiddingState(0, DEFAULT_MIN_BID, DEFAULT_BID_STEP) ]

assertPhase(hs, expected) ==
    IF hs.phase # expected
    THEN Thrown("Action not allowed during " \o hs.phase \o " phase.")
    ELSE Returned(hs)

\* assertBidder that lets every player act once a bidder is set
assertBidderSet(hs, player) ==
    IF hs.bidder = NoIndex THEN Thrown("No bidder has been set yet.")
    ELSE Returned(hs)

assertBidder(hs, player) ==
    IF hs.bidder = NoIndex THEN Thrown("No bidder has been set yet.")
    ELSE IF hs.bidder # player THEN Thrown("Only the bidder may perform this action.")
    ELSE Returned(hs)

replaceHand(hands, player, updated) == [hands EXCEPT ![player] = updated]

\* the message names the first missing card id; the id is left out here
removeCardsFromHand(hand, cards) ==
    IF \E i \in 1 .. Len(cards) :
           countOf(cards, cardId(cards[i])) > countOf(hand, cardId(cards[i]))
    THEN Thrown("Cannot discard card not in hand.")
    ELSE Returned(removeLoop(hand, cards, <<>>, <<>>))

PickupKittyAction(player) == [type |-> "pickupKitty", player |-> player]
DiscardToKittyAction(player, cards) ==
    [type |-> "discardToKitty", player |-> player, cards |-> cards]
DeclareTrumpAction(player, color) ==
    [type |-> "declareTrump", player |-> player, color |-> color]

\* applyHandAction: Returned(next HandState) or the thrown Error
applyHandAction(hs, action) ==
    CASE action.type \in {"bid", "pass", "passPartner"} ->
             IF hs.phase # "bidding" \/ hs.biddingState = Null
             THEN Thrown("Bidding actions are only allowed during the bidding phase.")
             ELSE LET applied == applyBiddingAction(hs.biddingState, action)
                  IN IF ~applied.ok THEN applied
                     ELSE IF ~isBiddingComplete(applied.state)
                     THEN Returned([hs EXCEPT !.biddingState = applied.state])
                     ELSE LET winningBid == getWinningBid(applied.state)
                          IN IF winningBid = Null
                             THEN Thrown("Bidding completed without a winning bid.")
                             ELSE Returned([hs EXCEPT
                                     !.phase = "kittyPickup",
                                     !.bidder = winningBid.player,
                                     !.winningBid = winningBid.amount,
                                     !.biddingState = applied.state])
      [] action.type = "pickupKitty" ->
             IF ~assertPhase(hs, "kittyPickup").ok THEN assertPhase(hs, "kittyPickup")
             ELSE IF ~assertBidder(hs, action.player).ok
                  THEN assertBidder(hs, action.player)
             ELSE Returned([hs EXCEPT
                     !.phase = "kittyDiscard",
                     !.hands = replaceHand(hs.hands, action.player,
                                   hs.hands[action.player] \o hs.kitty),
                     !.kitty = <<>>])
      [] action.type = "discardToKitty" ->
             IF ~assertPhase(hs, "kittyDiscard").ok THEN assertPhase(hs, "kittyDiscard")
             ELSE IF ~assertBidder(hs, action.player).ok
                  THEN assertBidder(hs, action.player)
             ELSE IF Len(action.cards) # 5
                  THEN Thrown("Must discard exactly 5 cards to the kitty.")
             ELSE LET updatedHand ==
                          removeCardsFromHand(hs.hands[action.player], action.cards)
                  IN IF ~updatedHand.ok THEN updatedHand
                     ELSE Returned([hs EXCEPT
                             !.phase = "declareTrump",
                             !.hands = replaceHand(hs.hands, action.player,
                                           updatedHand.state),
                             !.kitty = action.cards])
      [] action.type = "declareTrump" ->
             IF ~assertPhase(hs, "declareTrump").ok THEN assertPhase(hs, "declareTrump")
             ELSE IF ~assertBidder(hs, action.player).ok
                  THEN assertBidder(hs, action.player)
             ELSE Returned([hs EXCEPT !.phase = "trick", !.trumpColor = action.color])

\* discards submitted on a HandState: the kitty as picked up, the first five
\* cards of the bidder's hand, four cards, five with one doubled, five with
\* a card of another hand
HandDiscards(hs) ==
    IF hs.bidder = NoIndex THEN {<<>>}
    ELSE LET hand == hs.hands[hs.bidder]
             foreign == hs.hands[(hs.bidder + 1) % 4][1]
         IN { SubSeq(hand, Len(hand) - 4, Len(hand)),
              SubSeq(hand, 1, 5),
              SubSeq(hand, 1, 4),
              <<hand[1]>> \o SubSeq(hand, 1, 4),
              <<foreign>> \o SubSeq(hand, 1, 4) }

\* trump colors submitted
HandColors == {"red", "black"}

\* one call of applyHandAction: the HandState is replaced unless the call throws
HandApplied(action) ==
    LET r == applyHandAction(handState, action)
    IN /\ handState' = IF r.ok THEN r.state ELSE handState
       /\ thrown' = IF r.ok THEN None ELSE r.error
       /\ UNCHANGED <<state, result, dealt, frees, bidding, probe, room>>

HandBid(player, amount) == HandApplied(BidAction(player, amount))

HandPass(player) == HandApplied(PassAction(player))

HandPassPartner(player) == HandApplied(PassPartnerAction(player))

HandPickupKitty(player) == HandApplied(PickupKittyAction(player))

HandDiscardToKitty(player, cards) == HandApplied(DiscardToKittyAction(player, cards))

HandDeclareTrump(player, color) == HandApplied(DeclareTrumpAction(player, color))

InitHandFlow ==
    /\ \E deckMode \in {"full", "fast"} :
           LET d == dealHands(0, deckMode)
           IN handState = createHandStateFromDeal(
                              [deckMode |-> deckMode, rookRankMode |-> "rookHigh"],
                              d.hands, d.kitty)
    /\ thrown = None
    /\ state = Null
    /\ result = [ok |-> TRUE]
    /\ dealt = 0
    /\ frees = 0
    /\ bidding = Null
    /\ probe = Null
    /\ room = Null

NextHandFlow ==
    \/ \E player \in Players, amount \in BidAmounts : HandBid(player, amount)
    \/ \E player \in Players : HandPass(player)
    \/ \E player \in Players : HandPassPartner(player)
    \/ \E player \in Players : HandPickupKitty(player)
    \/ \E player \in Players, cards \in HandDiscards(handState) :
           HandDiscardToKitty(player, cards)
    \/ \E player \in Players, color \in HandColors : HandDeclareTrump(player, color)

SpecHand == InitHandFlow /\ [][NextHandFlow]_vars

----------------------------------------------------------------------------
(* The hand flow of the engine: claim C40, on SpecHand. *)

\* the phases in the order of the flow
HandPhaseOrder == <<"bidding", "kittyPickup", "kittyDiscard", "declareTrump", "trick">>

\* every action a player can submit on hs
HandActions(hs) ==
    {BidAction(player, amount) : player \in Players, amount \in BidAmounts}
    \cup {PassAction(player) : player \in Players}
    \cup {PassPartnerAction(player) : player \in Players}
    \cup {PickupKittyAction(player) : player \in Players}
    \cup {DiscardToKittyAction(player, cards) :
              player \in Players, cards \in HandDiscards(hs)}
    \cup {DeclareTrumpAction(player, color) : player \in Players, color \in HandColors}

\* the phase in which applyHandAction takes the action
ownPhase(action) ==
    CASE action.type = "pickupKitty" -> "kittyPickup"
      [] action.type = "discardToKitty" -> "kittyDiscard"
      [] action.type = "declareTrump" -> "declareTrump"
      [] OTHER -> "bidding"

\* C40: applyHandAction has no dealer fallback: a pass that would complete
\* the auction with no bid placed throws and the hand stays in the bidding
\* phase with two players passed; every HandState past bidding has a bidder
\* and a winning bid; pickupKitty, discardToKitty and declareTrump are
\* accepted only in their own phase, in that order, and only from the bidder.
C40_HandFlow ==
    /\ [](handState.phase = "bidding" =>
            /\ handState.bidder = NoIndex /\ handState.winningBid = NoAmount
            /\ (handState.biddingState.highBid = Null
                    /\ countPassed(handState.biddingState.passed) = 2) =>
                   applyHandAction(handState,
                       PassAction(handState.biddingState.currentPlayer))
                     = Thrown("Bidding completed without a winning bid."))
    /\ [](thrown = "Bidding completed without a winning bid." =>
            /\ handState.phase = "bidding"
            /\ countPassed(handState.biddingState.passed) = 2
            /\ handState.biddingState.highBid = Null)
    /\ [](handState.phase # "bidding" =>
            /\ handState.bidder \in Players
            /\ handState.winningBid >= DEFAULT_MIN_BID
            /\ handState.biddingState.highBid
                   = [player |-> handState.bidder, amount |-> handState.winningBid])
    /\ [](\A action \in HandActions(handState) :
              LET r == applyHandAction(handState, action)
              IN r.ok =>
                     /\ handState.phase = ownPhase(action)
                     /\ action.type \in {"pickupKitty", "discardToKitty", "declareTrump"} =>
                            /\ action.player = handState.bidder
                            /\ r.state.bidder = handState.bidder
                            /\ r.state.winningBid = handState.winningBid
                            /\ \E k \in 2 .. 4 : /\ handState.phase = HandPhaseOrder[k]
                                                 /\ r.state.phase = HandPhaseOrder[k + 1])
    /\ [][thrown' # None => handState' = handState]_vars
    /\ [][handState'.phase # handState.phase =>
              \E k \in 1 .. 4 : /\ handState.phase = HandPhaseOrder[k]
                                /\ handState'.phase = HandPhaseOrder[k + 1]]_vars

\* the third pass of an auction without a bid has just been thrown back: the
\* hand is still in bidding, two players passed, no bidder
C40_Witness ==
    /\ handState # Null
    /\ thrown = "Bidding completed without a winning bid."
    /\ handState.phase = "bidding"
    /\ countPassed(handState.biddingState.passed) = 2
    /\ handState.bidder = NoIndex
====
